---------------------------- MODULE Spec2Model ----------------------------
(***************************************************************************)
(* License validation and device binding of slothunter-backend.            *)
(*                                                                         *)
(* Fourteen state machines share this module.                              *)
(*   SpecRL  the rate limiter (src/lib/security/hmac.ts, second half):     *)
(*           concurrent calls of checkRateLimit for one key on one         *)
(*           instance, its in-process cache, the durable row, the clock.   *)
(*   SpecSeq the same rate limiter with sequential callers.                *)
(*   SpecRestart SpecSeq with a process that restarts between calls.       *)
(*   SpecStore SpecRL with queries and upserts that may throw.             *)
(*   SpecMulti SpecRL with calls on several instances.                     *)
(*   SpecWindow SpecSeq with the times of the calls that were allowed.     *)
(*   SpecSweep SpecRL beside a cache that is never swept.                  *)
(*   Spec    the license record of one license key and the request         *)
(*           handlers that read and write it, with the device-swap scope   *)
(*           of the rate limiter.                                          *)
(*   SpecFault activate and validate of Spec with a validation log whose   *)
(*           write may throw.                                              *)
(*   SpecSwapFault the device swap of Spec with a license update that may  *)
(*           throw.                                                        *)
(*   SpecStages the order in which the four protected handlers call the    *)
(*           authenticator, the limiters, the device binding, the token    *)
(*           issuer and the logs.                                          *)
(*   SpecHmac signRequest and verifyRequest (hmac.ts, first half).         *)
(*   SpecEnvelope parseSignedRequest, verifyRequest and the payload test   *)
(*           of the handlers on the JSON bodies posted to them.            *)
(*   SpecJwt signAccessToken, signRefreshToken and verifyJWT.              *)
(* A handler is cut at its awaits that touch shared state: one action per  *)
(* database operation, the synchronous code around it included.            *)
(*                                                                         *)
(* Not in Spec: the IP (100 per minute) and license-key (30 per minute)    *)
(* scopes of the rate limiter, which the MaxReqs requests of a behaviour   *)
(* cannot exhaust; database errors; unknown license keys; the expiry of    *)
(* tokens.                                                                 *)
(***************************************************************************)
EXTENDS Integers, FiniteSets, Sequences, TLC

(***************************************************************************)
(* Bounds of the model.                                                    *)
(***************************************************************************)
NSlots == 2        \* requests in flight at the same time
NInstances == 2    \* serverless instances, each with its own cache
MaxSeqCalls == 4   \* SpecWindow: calls of checkRateLimit in one behaviour
MaxTime == 3       \* the clock runs 0..MaxTime
MaxLimit == 2      \* SpecRL: limits 1..MaxLimit
MaxWindow == 2     \* SpecRL: windows 1..MaxWindow clock units
MaxCalls == 3      \* SpecRL: calls of checkRateLimit in one behaviour
MaxReqs == 2       \* Spec: requests that arrive in one behaviour
MaxDay == 2        \* Spec: the clock runs 0..MaxDay
NFp == 2           \* distinct browser fingerprints
SwapWindow == 1    \* Spec: RATE_LIMITS.DEVICE_SWAP.windowMs in clock units
MonthlyTerm == 0   \* Spec: clock units until a MONTHLY license expires
AnnualTerm == 1    \* Spec: clock units until an ANNUAL license expires
MaxStaged == 2     \* SpecStages: requests handled one after the other
MaxPayload == 1    \* SpecHmac: payloads 0..MaxPayload
PayloadBits == 1   \* SpecHmac: bits of a payload on the wire
NSecrets == 2      \* SpecHmac, SpecJwt: distinct secrets
MaxAgeBound == 1   \* SpecHmac: maxAge is 0..MaxAgeBound clock units
MaxSkew == 1       \* SpecHmac: the signer's clock is ahead by 0..MaxSkew
StampBits == 3     \* SpecHmac: bits of a timestamp on the wire
CharBits == 7      \* SpecHmac: bits of a character of the signature string
DigestBytes == 2   \* SpecHmac: bytes of a digest
NIds == 2          \* SpecJwt: distinct license ids, user ids
AccessTtl == 1     \* SpecJwt: clock units an access token is valid ('1h')
RefreshTtl == 2    \* SpecJwt: clock units a refresh token is valid ('7d')

Slots == 1..NSlots
Null == [none |-> TRUE]

Min(a, b) == IF a < b THEN a ELSE b
Max(a, b) == IF a > b THEN a ELSE b

VARIABLES
    now,              \* Date.now()
    cfg,              \* the RateLimitConfig of the key: [limit, windowMs]
    rateLimitCache,   \* per instance, the Map's value for the key: Null, or a reference
    heap,             \* heap[s]: the entry object slot s created and still holds
    rateLimitRow,     \* prisma.rateLimit row of the key: Null or [count, resetAt]
    pendingSaves,     \* upserts sent and not awaited, not yet executed
    rl,               \* rl[s]: the call of checkRateLimit running in slot s
    hist,             \* history of the calls (not program state)
    license,          \* the prisma.license row of the one license key
    validationLog,    \* prisma.validationLog: the fingerprints logged for the license
    deviceSwapLog,    \* prisma.deviceSwapLog rows of the license, in order
    req,              \* req[s]: the request handler running in slot s
    issued,           \* the kinds of bearer token handed out for the license
    out,              \* the response sent last: Null or [kind, resp (, bearer)]
    binds,            \* history: writes that bound a fingerprint to the license
    apiSecret,        \* process.env.API_SECRET of the verifying server
    maxAge,           \* the maxAge the handler passes to verifyRequest
    signedRequest,    \* the SignedRequest on the wire: Null or [payload, timestamp, signature]
    verified,         \* the last call of verifyRequest: Null or [request, at, ok]
    jwtInput,         \* the payload the last token was signed for
    jwt,              \* the bearer token presented: Null or [claims, sig]
    jwtResult,        \* the last call of verifyJWT: Null or [at, payload]
    pipe              \* the stages the request in hand has run: see RunStage

rlvars == <<now, cfg, rateLimitCache, heap, rateLimitRow, pendingSaves, rl>>
licvars == <<license, validationLog, deviceSwapLog, req, issued, out, binds>>
hmacvars == <<apiSecret, maxAge, signedRequest, verified>>
jwtvars == <<jwtInput, jwt, jwtResult>>
fnvars == <<hmacvars, jwtvars, pipe>>
vars == <<now, cfg, rateLimitCache, heap, rateLimitRow, pendingSaves, rl, hist,
          license, validationLog, deviceSwapLog, req, issued, out, binds,
          apiSecret, maxAge, signedRequest, verified, jwtInput, jwt,
          jwtResult, pipe>>

(***************************************************************************)
(* RateLimitEntry objects.  The cache holds a reference: [owner |-> s]     *)
(* while slot s still holds the object in its local `entry` across an      *)
(* await (the object is heap[s]), and [owner |-> 0, count, resetAt] once   *)
(* no running call holds it.                                               *)
(***************************************************************************)
Entry(c, r) == [count |-> c, resetAt |-> r]

CacheRef(o, c, r) == [owner |-> o, count |-> c, resetAt |-> r]

\* the serverless instances: each has its own module-level rateLimitCache
Instances == 1..NInstances

NoCache == [i \in Instances |-> Null]

\* the object the cache of instance i refers to
CacheEntryOf(i) ==
    IF rateLimitCache[i] = Null THEN Null
    ELSE IF rateLimitCache[i].owner = 0
         THEN Entry(rateLimitCache[i].count, rateLimitCache[i].resetAt)
         ELSE heap[rateLimitCache[i].owner]

\* the object the cache of the first instance refers to
CacheEntry == CacheEntryOf(1)

IdleCall == [pc |-> "idle", inst |-> 1, now0 |-> 0, db |-> Null, win |-> 0,
             res |-> Null]

\* RateLimitResult
Result(entry) ==
    [success |-> entry.count <= cfg.limit,
     limit |-> cfg.limit,
     remaining |-> Max(0, cfg.limit - entry.count),
     reset |-> entry.resetAt]

\* a cache whose entries are never taken as live
CacheNeverLive(entry, t) == FALSE

\* line 166: the cached entry is used when it exists and has not expired
CacheLive(entry, t) == entry # Null /\ ~(entry.resetAt < t)

\* history: the window the specification describes opens at the first call
\* and restarts at resetAt = open + windowMs
HistAtCall(t) ==
    IF hist.open < 0 \/ t >= hist.open + cfg.windowMs
    THEN [hist EXCEPT !.open = t, !.idx = 1, !.allowed = 0,
                      !.wins = @ + 1, !.calls = @ + 1]
    ELSE [hist EXCEPT !.idx = @ + 1, !.calls = @ + 1]

HistAtReturn(h, win, res) ==
    IF win = h.wins /\ res.success THEN [h EXCEPT !.allowed = @ + 1] ELSE h

(***************************************************************************)
(* checkRateLimit, lines 159-166 and, on a cache hit, 183-201: no await    *)
(* lies between the cache read and the return, so the hit path is one step.*)
(* On a miss the call sends the query of getFromSupabase and yields.       *)
(***************************************************************************)
CheckRateLimitStartOn(i, s, win) ==
    /\ rl[s].pc = "idle"
    /\ LET entry == CacheEntryOf(i)
       IN IF CacheLive(entry, now)
          THEN LET e2 == Entry(entry.count + 1, entry.resetAt)
               IN /\ IF rateLimitCache[i].owner = 0
                     THEN /\ rateLimitCache' = [rateLimitCache EXCEPT
                                    ![i] = CacheRef(0, e2.count, e2.resetAt)]
                          /\ heap' = heap
                     ELSE /\ heap' = [heap EXCEPT ![rateLimitCache[i].owner] = e2]
                          /\ rateLimitCache' = rateLimitCache
                  /\ pendingSaves' = pendingSaves \cup {e2}
                  /\ rl' = [rl EXCEPT ![s] = [IdleCall EXCEPT !.pc = "done",
                                  !.inst = i, !.now0 = now, !.win = win,
                                  !.res = Result(e2)]]
          ELSE /\ rl' = [rl EXCEPT ![s] = [IdleCall EXCEPT !.pc = "get",
                                  !.inst = i, !.now0 = now, !.win = win]]
               /\ UNCHANGED <<rateLimitCache, heap, pendingSaves>>
    /\ UNCHANGED <<now, cfg, rateLimitRow>>

\* the call runs on the first instance
CheckRateLimitStart(s, win) == CheckRateLimitStartOn(1, s, win)

\* getFromSupabase, lines 209-212: the database executes findUnique
GetFromSupabaseQuery(s) ==
    /\ rl[s].pc = "get"
    /\ rl' = [rl EXCEPT ![s].pc = "got", ![s].db = rateLimitRow]
    /\ UNCHANGED <<now, cfg, rateLimitCache, heap, rateLimitRow, pendingSaves>>

\* getFromSupabase, lines 214-221: a row that expired before Date.now() is null
GetFromSupabase(row, t) ==
    IF row = Null \/ row.resetAt < t THEN Null ELSE row

\* line 169: the row read is used when it is still live at the call's `now`
DbLive(dbEntry, t0) == dbEntry # Null /\ dbEntry.resetAt > t0

(***************************************************************************)
(* checkRateLimit resumes after `await getFromSupabase(key)`, lines        *)
(* 169-180.  With a live row the call runs to its return (lines 170-171,   *)
(* 183-201).  Otherwise it creates the entry of a new window, caches it,   *)
(* sends the upsert and yields on `await saveToSupabase`.                  *)
(***************************************************************************)
CheckRateLimitAfterGet(s) ==
    /\ rl[s].pc = "got"
    /\ LET dbEntry == GetFromSupabase(rl[s].db, now)
       IN IF DbLive(dbEntry, rl[s].now0)
          THEN LET e2 == Entry(dbEntry.count + 1, dbEntry.resetAt)
               IN /\ rateLimitCache' = [rateLimitCache EXCEPT
                                 ![rl[s].inst] = CacheRef(0, e2.count, e2.resetAt)]
                  /\ pendingSaves' = pendingSaves \cup {e2}
                  /\ rl' = [rl EXCEPT ![s].pc = "done", ![s].db = Null,
                                      ![s].res = Result(e2)]
                  /\ heap' = heap
          ELSE /\ heap' = [heap EXCEPT ![s] = Entry(0, rl[s].now0 + cfg.windowMs)]
               /\ rateLimitCache' = [rateLimitCache EXCEPT
                                        ![rl[s].inst] = CacheRef(s, 0, 0)]
               /\ rl' = [rl EXCEPT ![s].pc = "save", ![s].db = Null]
               /\ pendingSaves' = pendingSaves
    /\ UNCHANGED <<now, cfg, rateLimitRow>>

\* saveToSupabase, lines 230-241, awaited at line 179: the database executes
\* the upsert of the new window's entry (count 0)
SaveToSupabaseAwaited(s) ==
    /\ rl[s].pc = "save"
    /\ rateLimitRow' = Entry(0, heap[s].resetAt)
    /\ rl' = [rl EXCEPT ![s].pc = "saved"]
    /\ UNCHANGED <<now, cfg, rateLimitCache, heap, pendingSaves>>

\* checkRateLimit resumes after `await saveToSupabase`, lines 183-201: the
\* increment is applied to the object the call holds, which line 191 caches
CheckRateLimitAfterSave(s) ==
    /\ rl[s].pc = "saved"
    /\ LET e2 == Entry(heap[s].count + 1, heap[s].resetAt)
       IN /\ rateLimitCache' = [rateLimitCache EXCEPT
                         ![rl[s].inst] = CacheRef(0, e2.count, e2.resetAt)]
          /\ heap' = [heap EXCEPT ![s] = Null]
          /\ pendingSaves' = pendingSaves \cup {e2}
          /\ rl' = [rl EXCEPT ![s].pc = "done", ![s].res = Result(e2)]
    /\ UNCHANGED <<now, cfg, rateLimitRow>>

\* saveToSupabase, lines 230-241, sent at line 192 and not awaited: the
\* database executes one of the upserts in flight, in any order
SaveToSupabaseDetached ==
    /\ \E e \in pendingSaves :
          /\ rateLimitRow' = e
          /\ pendingSaves' = pendingSaves \ {e}
    /\ UNCHANGED <<now, cfg, rateLimitCache, heap, rl>>

\* the caller takes the RateLimitResult
CheckRateLimitReturn(s) ==
    /\ rl[s].pc = "done"
    /\ rl' = [rl EXCEPT ![s] = IdleCall]
    /\ UNCHANGED <<now, cfg, rateLimitCache, heap, rateLimitRow, pendingSaves>>

\* a sweep that deletes the cached entry whether or not it has expired
SweepOfAnyEntry(i) ==
    /\ CacheEntryOf(i) # Null
    /\ rateLimitCache' = [rateLimitCache EXCEPT ![i] = Null]
    /\ UNCHANGED <<now, cfg, heap, rateLimitRow, pendingSaves, rl>>

\* lines 113-123: the sweep deletes the cached entries that have expired
SweepOf(i) ==
    /\ CacheEntryOf(i) # Null
    /\ CacheEntryOf(i).resetAt < now
    /\ rateLimitCache' = [rateLimitCache EXCEPT ![i] = Null]
    /\ UNCHANGED <<now, cfg, heap, rateLimitRow, pendingSaves, rl>>

\* the sweep of the first instance
Sweep == SweepOf(1)

Tick ==
    /\ now < MaxTime
    /\ now' = now + 1
    /\ UNCHANGED <<cfg, rateLimitCache, heap, rateLimitRow, pendingSaves, rl>>

(***************************************************************************)
(* The license row.  browserFingerprint 0 is null; expiresAt -1 is null.   *)
(***************************************************************************)
Fps == 1..NFp
Plans == {"MONTHLY", "ANNUAL", "LIFETIME"}

\* maxActivations of a plan: the column is filled by the database schema
MaxActivationsOf(plan) ==
    IF plan = "LIFETIME" THEN 3 ELSE IF plan = "ANNUAL" THEN 2 ELSE 1

\* calculateExpiryDate at creation time t
calculateExpiryDate(plan, t) ==
    IF plan = "MONTHLY" THEN t + MonthlyTerm
    ELSE IF plan = "ANNUAL" THEN t + AnnualTerm
    ELSE -1

\* prisma.license.create of handleSuccessfulPayment
NewLicense(plan, t) ==
    [planType |-> plan,
     status |-> "INACTIVE",
     isBanned |-> FALSE,
     browserFingerprint |-> 0,
     activationCount |-> 0,
     maxActivations |-> MaxActivationsOf(plan),
     expiresAt |-> calculateExpiryDate(plan, t)]

\* license.expiresAt && license.expiresAt < new Date()
PastExpiry(lic, t) == lic.expiresAt # -1 /\ lic.expiresAt < t

\* row: what the handler keeps of a row it read and uses after a later await
IdleReq == [kind |-> "idle", pc |-> "idle", fp |-> 0, row |-> Null, resp |-> Null]

\* a response: its error code ("OK" on success), whether it carries a bearer
\* token, whether it carries license data, and details.swapsRemaining (-1: none)
Resp(code, token, data, sr) ==
    [code |-> code, token |-> token, data |-> data, swapsRemaining |-> sr]

Fail(code) == Resp(code, FALSE, FALSE, -1)

Busy(s) == req[s].pc # "idle" \/ rl[s].pc # "idle"

\* the slots are interchangeable: a new request takes the lowest free one
Free(s) == ~Busy(s) /\ \A t \in Slots : t < s => Busy(t)

\* a request arrives
Arrive == hist.calls < MaxReqs /\ hist' = [hist EXCEPT !.calls = @ + 1]

\* the tokens a successful response of this kind of request carries
TokensOf(kind) ==
    IF kind = "extActivate" THEN {"access", "refresh"} ELSE {"access"}

\* NextResponse.json(...) is returned
Answer(kind, resp) ==
    /\ out' = [kind |-> kind, resp |-> resp]
    /\ issued' = IF resp.token THEN issued \cup TokensOf(kind) ELSE issued

\* NextResponse.json(...) is returned to a request that came with a bearer
\* token; these responses carry no new token
AnswerBearer(kind, bearer, resp) ==
    /\ out' = [kind |-> kind, resp |-> resp, bearer |-> bearer]
    /\ issued' = issued

\* the handler goes on
Silent == out' = out /\ issued' = issued

Envelopes == {"ok", "malformed", "badsig"}

\* parseSignedRequest and verifyRequest as the handlers use them: the code
\* a request with this envelope is answered with, "ok" when it passes
EnvelopeCheck(env) ==
    IF env = "malformed" THEN "INVALID_REQUEST"
    ELSE IF env = "badsig" THEN "INVALID_SIGNATURE"
    ELSE "ok"

(***************************************************************************)
(* device-binding: checkDeviceBinding on the row it reads, bindDevice.     *)
(***************************************************************************)
\* details.swapsRemaining with one activation more counted than were made
SwapsRemainingOneLess(lic) ==
    Max(0, lic.maxActivations - lic.activationCount - 1)

\* line 74: swapsRemaining of a mismatch
SwapsRemaining(lic) == Max(0, lic.maxActivations - lic.activationCount)

\* a device check that takes every fingerprint other than the bound one for
\* a first activation
checkDeviceBindingAlwaysBinds(lic, fp) ==
    [isValid |-> TRUE, isFirstActivation |-> lic.browserFingerprint # fp,
     canSwap |-> FALSE,
     swapsRemaining |-> lic.maxActivations - lic.activationCount,
     errorCode |-> "none"]

checkDeviceBinding(lic, fp) ==
    IF lic.browserFingerprint = 0
    THEN [isValid |-> TRUE, isFirstActivation |-> TRUE, canSwap |-> FALSE,
          swapsRemaining |-> lic.maxActivations - lic.activationCount,
          errorCode |-> "none"]
    ELSE IF lic.browserFingerprint = fp
    THEN [isValid |-> TRUE, isFirstActivation |-> FALSE, canSwap |-> FALSE,
          swapsRemaining |-> lic.maxActivations - lic.activationCount,
          errorCode |-> "none"]
    ELSE LET canSwap == lic.activationCount < lic.maxActivations
         IN [isValid |-> FALSE, isFirstActivation |-> FALSE, canSwap |-> canSwap,
             swapsRemaining |-> SwapsRemaining(lic),
             errorCode |-> IF canSwap THEN "DEVICE_MISMATCH"
                           ELSE "MAX_ACTIVATIONS_REACHED"]

\* the update of bindDevice: one UPDATE with activationCount: {increment: 1}
bindDevice(lic, fp) ==
    [lic EXCEPT !.browserFingerprint = fp, !.status = "ACTIVE",
                !.activationCount = @ + 1]

\* a swap that rebinds without counting
swapDeviceUncounted(lic, fp) == [lic EXCEPT !.browserFingerprint = fp]

\* the update of requestDeviceSwap
swapDevice(lic, fp) ==
    [lic EXCEPT !.browserFingerprint = fp, !.activationCount = @ + 1]

\* validationLog.create / logValidation of a running request, then its response
LogValidation(s) ==
    /\ req[s].pc = "log"
    /\ validationLog' = validationLog \cup {req[s].fp}
    /\ req' = [req EXCEPT ![s] = IdleReq]
    /\ Answer(req[s].kind, req[s].resp)
    /\ UNCHANGED <<license, deviceSwapLog, binds, hist>>
    /\ UNCHANGED <<rlvars, fnvars>>

(***************************************************************************)
(* POST activate: findUnique and the checks on the row read (lines 64-133) *)
(***************************************************************************)
ActivateChecks(lic, fp) ==
    IF lic.isBanned THEN "LICENSE_BANNED"
    ELSE IF lic.status = "ACTIVE"
    THEN IF lic.browserFingerprint # 0 /\ lic.browserFingerprint # fp
         THEN "ALREADY_ACTIVATED"
         ELSE "OK"
    ELSE IF lic.status # "INACTIVE" THEN "INVALID_STATUS"
    ELSE IF lic.activationCount >= lic.maxActivations THEN "MAX_ACTIVATIONS"
    ELSE "bind"

ActivateFind(s, fp, env) ==
    /\ Free(s)
    /\ Arrive
    /\ LET bad == EnvelopeCheck(env)
           chk == ActivateChecks(license, fp)
       IN IF bad # "ok"
          THEN req' = req /\ Answer("activate", Fail(bad))
          ELSE IF chk = "bind"
          THEN /\ req' = [req EXCEPT ![s] = [IdleReq EXCEPT !.kind = "activate",
                                                !.pc = "bind", !.fp = fp]]
               /\ Silent
          ELSE IF chk = "OK"
          THEN req' = req /\ Answer("activate", Resp("OK", TRUE, TRUE, -1))
          ELSE req' = req /\ Answer("activate", Fail(chk))
    /\ UNCHANGED <<license, validationLog, deviceSwapLog, binds>>
    /\ UNCHANGED <<rlvars, fnvars>>

\* POST activate, lines 136-148, and POST validate, lines 365-377: bindDevice
BindDevice(s) ==
    /\ req[s].pc = "bind"
    /\ license' = bindDevice(license, req[s].fp)
    /\ binds' = binds + 1
    /\ req' = [req EXCEPT ![s].pc = "log", ![s].resp = Resp("OK", TRUE, TRUE, -1)]
    /\ Silent
    /\ UNCHANGED <<validationLog, deviceSwapLog, hist>>
    /\ UNCHANGED <<rlvars, fnvars>>

(***************************************************************************)
(* POST validate: findUnique and the checks on the row read (lines         *)
(* 309-355), then checkDeviceBinding, which reads the row again.           *)
(***************************************************************************)
ValidateChecks(lic, t) ==
    IF lic.isBanned THEN "LICENSE_BANNED"
    ELSE IF lic.status = "EXPIRED" \/ PastExpiry(lic, t) THEN "LICENSE_EXPIRED"
    ELSE "check"

ValidateFind(s, fp, env) ==
    /\ Free(s)
    /\ Arrive
    /\ LET r == [IdleReq EXCEPT !.kind = "validate", !.fp = fp]
           bad == EnvelopeCheck(env)
           chk == ValidateChecks(license, now)
       IN IF bad # "ok"
          THEN req' = req /\ Answer("validate", Fail(bad))
          ELSE IF chk = "check"
          THEN req' = [req EXCEPT ![s] = [r EXCEPT !.pc = "check"]] /\ Silent
          ELSE /\ req' = [req EXCEPT ![s] = [r EXCEPT !.pc = "log",
                                                     !.resp = Fail(chk)]]
               /\ Silent
    /\ UNCHANGED <<license, validationLog, deviceSwapLog, binds>>
    /\ UNCHANGED <<rlvars, fnvars>>

\* a mismatch answered with the code checkDeviceBinding computed
MismatchCodeOfCheck(deviceCheck) == deviceCheck.errorCode

\* the code of the mismatch response, line 387
MismatchCode(deviceCheck) == "DEVICE_MISMATCH"

\* POST validate, lines 358-408.  The update of lastValidatedAt and
\* lastValidatedIp (lines 400-406) writes no field that anything reads, so the
\* success path goes on to the log.
ValidateCheckDeviceBinding(s) ==
    /\ req[s].pc = "check"
    /\ LET deviceCheck == checkDeviceBinding(license, req[s].fp)
       IN IF deviceCheck.isFirstActivation
          THEN req' = [req EXCEPT ![s].pc = "bind"]
          ELSE IF ~deviceCheck.isValid
          THEN req' = [req EXCEPT ![s].pc = "log",
                          ![s].resp = Resp(MismatchCode(deviceCheck), FALSE, FALSE,
                                           deviceCheck.swapsRemaining)]
          ELSE req' = [req EXCEPT ![s].pc = "log",
                                  ![s].resp = Resp("OK", TRUE, TRUE, -1)]
    /\ Silent
    /\ UNCHANGED <<license, validationLog, deviceSwapLog, binds, hist>>
    /\ UNCHANGED <<rlvars, fnvars>>

(***************************************************************************)
(* POST device swap.  The envelope is checked first (lines 24-49), then    *)
(* checkDeviceSwapRateLimit runs (line 52), whose first step this is.      *)
(***************************************************************************)
SwapStart(s, fp, env) ==
    /\ Free(s)
    /\ Arrive
    /\ LET bad == EnvelopeCheck(env)
       IN IF bad # "ok"
          THEN /\ req' = req
               /\ Answer("swap", Fail(bad))
               /\ UNCHANGED rlvars
          ELSE /\ req' = [req EXCEPT ![s] = [IdleReq EXCEPT !.kind = "swap",
                                                !.pc = "rateLimit", !.fp = fp]]
               /\ Silent
               /\ CheckRateLimitStart(s, 0)
    /\ UNCHANGED <<license, validationLog, deviceSwapLog, binds, fnvars>>

\* lines 53-71: the result of the rate limit, then the findUnique is sent
SwapAfterRateLimit(s) ==
    /\ req[s].pc = "rateLimit"
    /\ CheckRateLimitReturn(s)
    /\ IF rl[s].res.success
       THEN req' = [req EXCEPT ![s].pc = "find"] /\ Silent
       ELSE /\ req' = [req EXCEPT ![s] = IdleReq]
            /\ Answer("swap", Fail("DEVICE_SWAP_RATE_LIMIT"))
    /\ UNCHANGED <<license, validationLog, deviceSwapLog, binds, hist, fnvars>>

\* lines 68-85: findUnique and the checks on the row read
SwapFind(s) ==
    /\ req[s].pc = "find"
    /\ IF license.isBanned \/ license.status # "ACTIVE"
       THEN /\ req' = [req EXCEPT ![s] = IdleReq]
            /\ Answer("swap", Fail("LICENSE_INACTIVE"))
       ELSE req' = [req EXCEPT ![s].pc = "swapFind"] /\ Silent
    /\ UNCHANGED <<license, validationLog, deviceSwapLog, binds, hist>>
    /\ UNCHANGED <<rlvars, fnvars>>

\* the checks of requestDeviceSwap on the row it read, lines 132-138
SwapRefused(lic) ==
    lic.browserFingerprint = 0 \/ lic.activationCount >= lic.maxActivations

\* the code the route answers a refusal of requestDeviceSwap with, line 100
SwapRefusedCode(lic) == "SWAP_FAILED"

\* requestDeviceSwap, lines 119-138: the row is read again and checked
RequestDeviceSwapFind(s) ==
    /\ req[s].pc = "swapFind"
    /\ IF SwapRefused(license)
       THEN /\ req' = [req EXCEPT ![s] = IdleReq]
            /\ Answer("swap", Fail(SwapRefusedCode(license)))
       ELSE /\ req' = [req EXCEPT ![s].pc = "swapLog",
                        ![s].row = [browserFingerprint |-> license.browserFingerprint]]
            /\ Silent
    /\ UNCHANGED <<license, validationLog, deviceSwapLog, binds, hist>>
    /\ UNCHANGED <<rlvars, fnvars>>

\* requestDeviceSwap, lines 141-150: deviceSwapLog.create
RequestDeviceSwapLog(s) ==
    /\ req[s].pc = "swapLog"
    /\ deviceSwapLog' = Append(deviceSwapLog,
                               [old |-> req[s].row.browserFingerprint,
                                new |-> req[s].fp])
    /\ req' = [req EXCEPT ![s].pc = "swapUpdate", ![s].row = Null]
    /\ Silent
    /\ UNCHANGED <<license, validationLog, binds, hist>>
    /\ UNCHANGED <<rlvars, fnvars>>

\* requestDeviceSwap, lines 153-164: the update, then the success response
RequestDeviceSwapUpdate(s) ==
    /\ req[s].pc = "swapUpdate"
    /\ license' = swapDevice(license, req[s].fp)
    /\ binds' = binds + 1
    /\ req' = [req EXCEPT ![s] = IdleReq]
    /\ Answer("swap", Resp("OK", FALSE, FALSE, -1))
    /\ UNCHANGED <<validationLog, deviceSwapLog, hist>>
    /\ UNCHANGED <<rlvars, fnvars>>

(***************************************************************************)
(* POST extension activate (no signed envelope): findUnique and the checks *)
(* on the row read, lines 45-82.                                           *)
(***************************************************************************)
ExtActivateFind(s, fp) ==
    /\ Free(s)
    /\ Arrive
    /\ LET r == [IdleReq EXCEPT !.kind = "extActivate", !.fp = fp]
       IN IF license.isBanned
          THEN req' = req /\ Answer("extActivate", Fail("BANNED"))
          ELSE IF license.status = "EXPIRED"
          THEN req' = req /\ Answer("extActivate", Fail("EXPIRED"))
          ELSE IF PastExpiry(license, now)
          THEN req' = [req EXCEPT ![s] = [r EXCEPT !.pc = "expire"]] /\ Silent
          ELSE /\ req' = [req EXCEPT ![s] = [r EXCEPT !.pc = "group",
                                         !.row = [status |-> license.status]]]
               /\ Silent
    /\ UNCHANGED <<license, validationLog, deviceSwapLog, binds>>
    /\ UNCHANGED <<rlvars, fnvars>>

\* lines 74-81: the update that persists EXPIRED
ExtActivateExpire(s) ==
    /\ req[s].pc = "expire"
    /\ license' = [license EXCEPT !.status = "EXPIRED"]
    /\ req' = [req EXCEPT ![s] = IdleReq]
    /\ Answer("extActivate", Fail("EXPIRED"))
    /\ UNCHANGED <<validationLog, deviceSwapLog, binds, hist>>
    /\ UNCHANGED <<rlvars, fnvars>>

\* line 90
maxDevices(plan) ==
    IF plan = "LIFETIME" THEN 3 ELSE IF plan = "ANNUAL" THEN 2 ELSE 1

\* lines 85-101: validationLog.groupBy and the device limit
ExtActivateGroupBy(s) ==
    /\ req[s].pc = "group"
    /\ LET deviceCount == validationLog
           isNewDevice == req[s].fp \notin deviceCount
       IN IF isNewDevice /\ Cardinality(deviceCount) >= maxDevices(license.planType)
          THEN /\ req' = [req EXCEPT ![s] = IdleReq]
               /\ Answer("extActivate", Fail("DEVICE_LIMIT"))
          ELSE IF req[s].row.status = "INACTIVE"
          THEN req' = [req EXCEPT ![s].pc = "extBind", ![s].row = Null] /\ Silent
          ELSE /\ req' = [req EXCEPT ![s].pc = "log", ![s].row = Null,
                                     ![s].resp = Resp("OK", TRUE, TRUE, -1)]
               /\ Silent
    /\ UNCHANGED <<license, validationLog, deviceSwapLog, binds, hist>>
    /\ UNCHANGED <<rlvars, fnvars>>

\* the update of lines 102-109: activationCount is not in it
extBind(lic, fp) ==
    [lic EXCEPT !.status = "ACTIVE", !.browserFingerprint = fp]

ExtActivateBind(s) ==
    /\ req[s].pc = "extBind"
    /\ license' = extBind(license, req[s].fp)
    /\ binds' = binds + 1
    /\ req' = [req EXCEPT ![s].pc = "log", ![s].resp = Resp("OK", TRUE, TRUE, -1)]
    /\ Silent
    /\ UNCHANGED <<validationLog, deviceSwapLog, hist>>
    /\ UNCHANGED <<rlvars, fnvars>>

(***************************************************************************)
(* The token-authenticated GETs.  A client presents a token it was handed, *)
(* or something that verifyJWT refuses.                                    *)
(***************************************************************************)
Tokens == {"access", "refresh", "bad"}

\* verifyJWT: signature, issuer, audience; the type claim is not looked at
verifyJWT(token) == token # "bad"

\* GET config, lines 35-42: the check on the row read
ConfigChecks(lic) ==
    IF lic.isBanned \/ lic.status # "ACTIVE" THEN "LICENSE_INVALID" ELSE "OK"

\* GET config, lines 15-42
ConfigGet(token) ==
    /\ Arrive
    /\ token \in issued \cup {"bad"}
    /\ AnswerBearer("config", token,
              IF ~verifyJWT(token) THEN Fail("INVALID_TOKEN")
              ELSE IF ConfigChecks(license) # "OK" THEN Fail(ConfigChecks(license))
              ELSE Resp("OK", FALSE, TRUE, -1))
    /\ UNCHANGED <<license, validationLog, deviceSwapLog, req, binds>>
    /\ UNCHANGED <<rlvars, fnvars>>

\* GET license status, lines 149-194: the row found is returned as it is
StatusChecks(lic) == "OK"

\* GET license status, lines 138-194
StatusGet(token) ==
    /\ Arrive
    /\ token \in issued \cup {"bad"}
    /\ AnswerBearer("status", token,
              IF ~verifyJWT(token) THEN Fail("INVALID_TOKEN")
              ELSE IF StatusChecks(license) # "OK" THEN Fail(StatusChecks(license))
              ELSE Resp("OK", FALSE, TRUE, -1))
    /\ UNCHANGED <<license, validationLog, deviceSwapLog, req, binds>>
    /\ UNCHANGED <<rlvars, fnvars>>

(***************************************************************************)
(* Administration and payment.  The values written do not depend on the    *)
(* row read, so the read and the update are one step.                      *)
(***************************************************************************)
\* POST ban, lines 116-129
Ban ==
    /\ ~license.isBanned
    /\ license' = [license EXCEPT !.isBanned = TRUE, !.status = "INACTIVE"]
    /\ UNCHANGED <<validationLog, deviceSwapLog, req, issued, out, binds, hist>>
    /\ UNCHANGED <<rlvars, fnvars>>

\* an unban that does not look at expiresAt
UnbanToActive ==
    /\ license.isBanned
    /\ license' = [license EXCEPT !.isBanned = FALSE, !.status = "ACTIVE"]
    /\ UNCHANGED <<validationLog, deviceSwapLog, req, issued, out, binds, hist>>
    /\ UNCHANGED <<rlvars, fnvars>>

\* POST unban, lines 27-40
Unban ==
    /\ license.isBanned
    /\ license' = [license EXCEPT !.isBanned = FALSE,
                     !.status = IF PastExpiry(license, now) THEN "EXPIRED"
                                ELSE "ACTIVE"]
    /\ UNCHANGED <<validationLog, deviceSwapLog, req, issued, out, binds, hist>>
    /\ UNCHANGED <<rlvars, fnvars>>

\* handleRefund, lines 193-201
RefundBan ==
    /\ ~license.isBanned
    /\ license' = [license EXCEPT !.isBanned = TRUE]
    /\ UNCHANGED <<validationLog, deviceSwapLog, req, issued, out, binds, hist>>
    /\ UNCHANGED <<rlvars, fnvars>>

\* nothing signed, verified or staged: the state of the function-level
\* variables in the specifications that do not use them
FnIdle ==
    /\ apiSecret = 1
    /\ maxAge = 0
    /\ signedRequest = Null
    /\ verified = Null
    /\ jwtInput = Null
    /\ jwt = Null
    /\ jwtResult = Null
    /\ pipe = Null

NoHist == [open |-> -1, idx |-> 0, allowed |-> 0, wins |-> 0, calls |-> 0]

\* the license as the payment webhook created it at time 0
Issued(plan) ==
    /\ license = NewLicense(plan, 0)
    /\ validationLog = {}
    /\ issued = {}
    /\ out = Null
    /\ binds = 0

\* the same license after one POST activate from device 1 was answered
Activated(plan) ==
    /\ license = bindDevice(NewLicense(plan, 0), 1)
    /\ validationLog = {1}
    /\ issued = {"access"}
    /\ out = [kind |-> "activate", resp |-> Resp("OK", TRUE, TRUE, -1)]
    /\ binds = 1

Init ==
    /\ now = 0
    /\ cfg = [limit |-> 1, windowMs |-> SwapWindow]
    /\ rateLimitCache = NoCache
    /\ heap = [s \in Slots |-> Null]
    /\ rateLimitRow = Null
    /\ pendingSaves = {}
    /\ rl = [s \in Slots |-> IdleCall]
    /\ hist = NoHist
    /\ \E plan \in Plans : Issued(plan) \/ Activated(plan)
    /\ deviceSwapLog = <<>>
    /\ req = [s \in Slots |-> IdleReq]
    /\ FnIdle

Next ==
    \/ \E s \in Slots, fp \in Fps, env \in Envelopes : ActivateFind(s, fp, env)
    \/ \E s \in Slots : BindDevice(s)
    \/ \E s \in Slots, fp \in Fps, env \in Envelopes : ValidateFind(s, fp, env)
    \/ \E s \in Slots : ValidateCheckDeviceBinding(s)
    \/ \E s \in Slots : LogValidation(s)
    \/ \E s \in Slots, fp \in Fps, env \in Envelopes : SwapStart(s, fp, env)
    \/ \E s \in Slots : GetFromSupabaseQuery(s) /\ UNCHANGED <<licvars, hist, fnvars>>
    \/ \E s \in Slots : CheckRateLimitAfterGet(s) /\ UNCHANGED <<licvars, hist, fnvars>>
    \/ \E s \in Slots : SaveToSupabaseAwaited(s) /\ UNCHANGED <<licvars, hist, fnvars>>
    \/ \E s \in Slots : CheckRateLimitAfterSave(s) /\ UNCHANGED <<licvars, hist, fnvars>>
    \/ SaveToSupabaseDetached /\ UNCHANGED <<licvars, hist, fnvars>>
    \/ Sweep /\ UNCHANGED <<licvars, hist, fnvars>>
    \/ \E s \in Slots : SwapAfterRateLimit(s)
    \/ \E s \in Slots : SwapFind(s)
    \/ \E s \in Slots : RequestDeviceSwapFind(s)
    \/ \E s \in Slots : RequestDeviceSwapLog(s)
    \/ \E s \in Slots : RequestDeviceSwapUpdate(s)
    \/ \E s \in Slots, fp \in Fps : ExtActivateFind(s, fp)
    \/ \E s \in Slots : ExtActivateExpire(s)
    \/ \E s \in Slots : ExtActivateGroupBy(s)
    \/ \E s \in Slots : ExtActivateBind(s)
    \/ \E token \in Tokens : ConfigGet(token)
    \/ \E token \in Tokens : StatusGet(token)
    \/ Ban
    \/ Unban
    \/ RefundBan
    \/ now < MaxDay /\ Tick /\ UNCHANGED <<licvars, hist, fnvars>>

Spec == Init /\ [][Next]_vars

(***************************************************************************)
(* Device swap with a license update that may throw.  requestDeviceSwap    *)
(* creates the deviceSwapLog row (part_004 line 141) and then updates the  *)
(* license (line 153), outside any transaction and without a try: a throw  *)
(* of the update reaches the catch of the route (part_003 lines 115-124).  *)
(***************************************************************************)
RequestDeviceSwapUpdateThrows(s) ==
    /\ req[s].pc = "swapUpdate"
    /\ req' = [req EXCEPT ![s] = IdleReq]
    /\ Answer("swap", Fail("INTERNAL_ERROR"))
    /\ UNCHANGED <<license, validationLog, deviceSwapLog, binds, hist>>
    /\ UNCHANGED <<rlvars, fnvars>>

NextSwapFault ==
    \/ \E s \in Slots, fp \in Fps, env \in Envelopes : SwapStart(s, fp, env)
    \/ \E s \in Slots : GetFromSupabaseQuery(s) /\ UNCHANGED <<licvars, hist, fnvars>>
    \/ \E s \in Slots : CheckRateLimitAfterGet(s) /\ UNCHANGED <<licvars, hist, fnvars>>
    \/ \E s \in Slots : SaveToSupabaseAwaited(s) /\ UNCHANGED <<licvars, hist, fnvars>>
    \/ \E s \in Slots : CheckRateLimitAfterSave(s) /\ UNCHANGED <<licvars, hist, fnvars>>
    \/ SaveToSupabaseDetached /\ UNCHANGED <<licvars, hist, fnvars>>
    \/ Sweep /\ UNCHANGED <<licvars, hist, fnvars>>
    \/ \E s \in Slots : SwapAfterRateLimit(s)
    \/ \E s \in Slots : SwapFind(s)
    \/ \E s \in Slots : RequestDeviceSwapFind(s)
    \/ \E s \in Slots : RequestDeviceSwapLog(s)
    \/ \E s \in Slots : RequestDeviceSwapUpdate(s)
    \/ \E s \in Slots : RequestDeviceSwapUpdateThrows(s)
    \/ now < MaxDay /\ Tick /\ UNCHANGED <<licvars, hist, fnvars>>

SpecSwapFault == Init /\ [][NextSwapFault]_vars

(***************************************************************************)
(* Activate and validate with a validation log whose write may throw.      *)
(* POST activate awaits validationLog.create inside the handler's try      *)
(* (line 151), so a throw reaches its catch (lines 188-197); POST validate *)
(* writes through logValidation, which catches (lines 474-492).            *)
(***************************************************************************)
LogValidationThrows(s) ==
    /\ req[s].pc = "log"
    /\ req[s].kind \in {"activate", "validate"}
    /\ req' = [req EXCEPT ![s] = IdleReq]
    /\ IF req[s].kind = "validate"
       THEN Answer("validate", req[s].resp)
       ELSE Answer("activate", Fail("INTERNAL_ERROR"))
    /\ UNCHANGED <<license, validationLog, deviceSwapLog, binds, hist>>
    /\ UNCHANGED <<rlvars, fnvars>>

NextFault ==
    \/ \E s \in Slots, fp \in Fps, env \in Envelopes : ActivateFind(s, fp, env)
    \/ \E s \in Slots : BindDevice(s)
    \/ \E s \in Slots, fp \in Fps, env \in Envelopes : ValidateFind(s, fp, env)
    \/ \E s \in Slots : ValidateCheckDeviceBinding(s)
    \/ \E s \in Slots : LogValidation(s)
    \/ \E s \in Slots : LogValidationThrows(s)
    \/ now < MaxDay /\ Tick /\ UNCHANGED <<licvars, hist, fnvars>>

SpecFault == Init /\ [][NextFault]_vars

(***************************************************************************)
(* The rate limiter alone: calls of checkRateLimit for one key, with any   *)
(* limit and window.                                                       *)
(***************************************************************************)
CheckRateLimitCall(s) ==
    /\ Free(s)
    /\ hist.calls < MaxCalls
    /\ hist' = HistAtCall(now)
    /\ CheckRateLimitStart(s, HistAtCall(now).wins)
    /\ UNCHANGED <<licvars, fnvars>>

CheckRateLimitDone(s) ==
    /\ CheckRateLimitReturn(s)
    /\ hist' = HistAtReturn(hist, rl[s].win, rl[s].res)
    /\ UNCHANGED <<licvars, fnvars>>

InitRL ==
    /\ now = 0
    /\ cfg \in [limit : 1..MaxLimit, windowMs : 1..MaxWindow]
    /\ rateLimitCache = NoCache
    /\ heap = [s \in Slots |-> Null]
    /\ rateLimitRow = Null
    /\ pendingSaves = {}
    /\ rl = [s \in Slots |-> IdleCall]
    /\ hist = NoHist
    /\ license = NewLicense("LIFETIME", 0)
    /\ validationLog = {}
    /\ deviceSwapLog = <<>>
    /\ req = [s \in Slots |-> IdleReq]
    /\ issued = {}
    /\ out = Null
    /\ binds = 0
    /\ FnIdle

NextRL ==
    \/ \E s \in Slots : CheckRateLimitCall(s)
    \/ \E s \in Slots : GetFromSupabaseQuery(s) /\ UNCHANGED <<licvars, hist, fnvars>>
    \/ \E s \in Slots : CheckRateLimitAfterGet(s) /\ UNCHANGED <<licvars, hist, fnvars>>
    \/ \E s \in Slots : SaveToSupabaseAwaited(s) /\ UNCHANGED <<licvars, hist, fnvars>>
    \/ \E s \in Slots : CheckRateLimitAfterSave(s) /\ UNCHANGED <<licvars, hist, fnvars>>
    \/ \E s \in Slots : CheckRateLimitDone(s)
    \/ SaveToSupabaseDetached /\ UNCHANGED <<licvars, hist, fnvars>>
    \/ Sweep /\ UNCHANGED <<licvars, hist, fnvars>>
    \/ Tick /\ UNCHANGED <<licvars, hist, fnvars>>

SpecRL == InitRL /\ [][NextRL]_vars

\* sequential callers: a call starts when the one before has returned
SequentialCall(s) ==
    /\ \A t \in Slots : rl[t].pc = "idle"
    /\ CheckRateLimitCall(s)

NextSeq ==
    \/ \E s \in Slots : SequentialCall(s)
    \/ \E s \in Slots : GetFromSupabaseQuery(s) /\ UNCHANGED <<licvars, hist, fnvars>>
    \/ \E s \in Slots : CheckRateLimitAfterGet(s) /\ UNCHANGED <<licvars, hist, fnvars>>
    \/ \E s \in Slots : SaveToSupabaseAwaited(s) /\ UNCHANGED <<licvars, hist, fnvars>>
    \/ \E s \in Slots : CheckRateLimitAfterSave(s) /\ UNCHANGED <<licvars, hist, fnvars>>
    \/ \E s \in Slots : CheckRateLimitDone(s)
    \/ SaveToSupabaseDetached /\ UNCHANGED <<licvars, hist, fnvars>>
    \/ Sweep /\ UNCHANGED <<licvars, hist, fnvars>>
    \/ Tick /\ UNCHANGED <<licvars, hist, fnvars>>

SpecSeq == InitRL /\ [][NextSeq]_vars

(***************************************************************************)
(* Sequential callers and a process that restarts between two calls: the   *)
(* module is loaded again and line 111 creates an empty rateLimitCache.    *)
(* The upserts the old process has sent stay with the database.            *)
(***************************************************************************)
Restart ==
    /\ \A s \in Slots : rl[s].pc = "idle"
    /\ rateLimitCache # NoCache
    /\ rateLimitCache' = NoCache
    /\ UNCHANGED <<now, cfg, heap, rateLimitRow, pendingSaves, rl>>

NextRestart ==
    \/ NextSeq
    \/ Restart /\ UNCHANGED <<licvars, hist, fnvars>>

SpecRestart == InitRL /\ [][NextRestart]_vars

(***************************************************************************)
(* Sequential callers with the times of the calls that were allowed:       *)
(* hist.times lists, in the order of the calls, the Date.now() of line 160 *)
(* of every call whose result was success.                                 *)
(***************************************************************************)
TimedCall(s) ==
    /\ \A t \in Slots : rl[t].pc = "idle"
    /\ Free(s)
    /\ hist.calls < MaxSeqCalls
    /\ hist' = HistAtCall(now)
    /\ CheckRateLimitStart(s, HistAtCall(now).wins)
    /\ UNCHANGED <<licvars, fnvars>>

TimedDone(s) ==
    /\ CheckRateLimitReturn(s)
    /\ hist' = [HistAtReturn(hist, rl[s].win, rl[s].res) EXCEPT
                   !.times = IF rl[s].res.success THEN Append(@, rl[s].now0)
                             ELSE @]
    /\ UNCHANGED <<licvars, fnvars>>

InitWindow ==
    /\ now = 0
    /\ cfg \in [limit : 1..MaxLimit, windowMs : 1..MaxWindow]
    /\ rateLimitCache = NoCache
    /\ heap = [s \in Slots |-> Null]
    /\ rateLimitRow = Null
    /\ pendingSaves = {}
    /\ rl = [s \in Slots |-> IdleCall]
    /\ hist = [open |-> -1, idx |-> 0, allowed |-> 0, wins |-> 0, calls |-> 0,
               times |-> <<>>]
    /\ license = NewLicense("LIFETIME", 0)
    /\ validationLog = {}
    /\ deviceSwapLog = <<>>
    /\ req = [s \in Slots |-> IdleReq]
    /\ issued = {}
    /\ out = Null
    /\ binds = 0
    /\ FnIdle

NextWindow ==
    \/ \E s \in Slots : TimedCall(s)
    \/ \E s \in Slots : GetFromSupabaseQuery(s) /\ UNCHANGED <<licvars, hist, fnvars>>
    \/ \E s \in Slots : CheckRateLimitAfterGet(s) /\ UNCHANGED <<licvars, hist, fnvars>>
    \/ \E s \in Slots : SaveToSupabaseAwaited(s) /\ UNCHANGED <<licvars, hist, fnvars>>
    \/ \E s \in Slots : CheckRateLimitAfterSave(s) /\ UNCHANGED <<licvars, hist, fnvars>>
    \/ \E s \in Slots : TimedDone(s)
    \/ SaveToSupabaseDetached /\ UNCHANGED <<licvars, hist, fnvars>>
    \/ Sweep /\ UNCHANGED <<licvars, hist, fnvars>>
    \/ Tick /\ UNCHANGED <<licvars, hist, fnvars>>

SpecWindow == InitWindow /\ [][NextWindow]_vars

(***************************************************************************)
(* The rate limiter beside a cache that is never swept.  hist.unswept is   *)
(* the reference rateLimitCache would hold if the interval of lines        *)
(* 113-123 had never fired: every write of the cache is applied to it, a   *)
(* sweep is not.  A call that starts reads hist.unswept by the code of     *)
(* lines 165-166 and 183-201, which gives the call the unswept process     *)
(* would make.                                                             *)
(***************************************************************************)
\* the object hist.unswept refers to
UnsweptEntry ==
    IF hist.unswept = Null THEN Null
    ELSE IF hist.unswept.owner = 0
         THEN Entry(hist.unswept.count, hist.unswept.resetAt)
         ELSE heap[hist.unswept.owner]

\* lines 165-166, 183-201 on the unswept cache: the state of the call of
\* slot s after its first step
UnsweptStart(s, win) ==
    IF CacheLive(UnsweptEntry, now)
    THEN [IdleCall EXCEPT !.pc = "done", !.now0 = now, !.win = win,
             !.res = Result(Entry(UnsweptEntry.count + 1, UnsweptEntry.resetAt))]
    ELSE [IdleCall EXCEPT !.pc = "get", !.now0 = now, !.win = win]

\* line 183 on the unswept cache: the reference it holds after the step
UnsweptAfterStart ==
    IF CacheLive(UnsweptEntry, now) /\ hist.unswept.owner = 0
    THEN CacheRef(0, hist.unswept.count + 1, hist.unswept.resetAt)
    ELSE hist.unswept

SweptCall(s) ==
    /\ Free(s)
    /\ hist.calls < MaxCalls
    /\ hist' = [HistAtCall(now) EXCEPT !.unswept = UnsweptAfterStart]
    /\ CheckRateLimitStart(s, HistAtCall(now).wins)
    /\ UNCHANGED <<licvars, fnvars>>

\* lines 171 and 178: both caches are set to the same reference
SweptAfterGet(s) ==
    /\ CheckRateLimitAfterGet(s)
    /\ hist' = [hist EXCEPT !.unswept = rateLimitCache'[1]]
    /\ UNCHANGED <<licvars, fnvars>>

\* line 191: both caches are set to the same reference
SweptAfterSave(s) ==
    /\ CheckRateLimitAfterSave(s)
    /\ hist' = [hist EXCEPT !.unswept = rateLimitCache'[1]]
    /\ UNCHANGED <<licvars, fnvars>>

InitSweep ==
    /\ now = 0
    /\ cfg \in [limit : 1..MaxLimit, windowMs : 1..MaxWindow]
    /\ rateLimitCache = NoCache
    /\ heap = [s \in Slots |-> Null]
    /\ rateLimitRow = Null
    /\ pendingSaves = {}
    /\ rl = [s \in Slots |-> IdleCall]
    /\ hist = [open |-> -1, idx |-> 0, allowed |-> 0, wins |-> 0, calls |-> 0,
               unswept |-> Null]
    /\ license = NewLicense("LIFETIME", 0)
    /\ validationLog = {}
    /\ deviceSwapLog = <<>>
    /\ req = [s \in Slots |-> IdleReq]
    /\ issued = {}
    /\ out = Null
    /\ binds = 0
    /\ FnIdle

NextSweep ==
    \/ \E s \in Slots : SweptCall(s)
    \/ \E s \in Slots : GetFromSupabaseQuery(s) /\ UNCHANGED <<licvars, hist, fnvars>>
    \/ \E s \in Slots : SweptAfterGet(s)
    \/ \E s \in Slots : SaveToSupabaseAwaited(s) /\ UNCHANGED <<licvars, hist, fnvars>>
    \/ \E s \in Slots : SweptAfterSave(s)
    \/ \E s \in Slots : CheckRateLimitDone(s)
    \/ SaveToSupabaseDetached /\ UNCHANGED <<licvars, hist, fnvars>>
    \/ Sweep /\ UNCHANGED <<licvars, hist, fnvars>>
    \/ Tick /\ UNCHANGED <<licvars, hist, fnvars>>

SpecSweep == InitSweep /\ [][NextSweep]_vars

(***************************************************************************)
(* The rate limiter with a database that may fail: a query or an upsert of *)
(* the rateLimit table throws instead of being executed.                   *)
(***************************************************************************)
\* the call is left with a rejected promise
getFromSupabaseRethrows(call) == [call EXCEPT !.pc = "threw"]

\* getFromSupabase's catch, lines 222-225: a query that throws is a null row
getFromSupabaseCatch(call) == [call EXCEPT !.pc = "got", !.db = Null]

GetFromSupabaseThrows(s) ==
    /\ rl[s].pc = "get"
    /\ rl' = [rl EXCEPT ![s] = getFromSupabaseCatch(rl[s])]
    /\ UNCHANGED <<now, cfg, rateLimitCache, heap, rateLimitRow, pendingSaves>>

\* saveToSupabase's catch, lines 242-244: an upsert that throws is logged and
\* the call that awaits it (line 179) resumes
saveToSupabaseCatch(call) == [call EXCEPT !.pc = "saved"]

SaveToSupabaseAwaitedThrows(s) ==
    /\ rl[s].pc = "save"
    /\ rl' = [rl EXCEPT ![s] = saveToSupabaseCatch(rl[s])]
    /\ UNCHANGED <<now, cfg, rateLimitCache, heap, rateLimitRow, pendingSaves>>

\* the same catch for an upsert sent at line 192: the row is not written
SaveToSupabaseDetachedThrows ==
    /\ \E e \in pendingSaves : pendingSaves' = pendingSaves \ {e}
    /\ UNCHANGED <<now, cfg, rateLimitCache, heap, rateLimitRow, rl>>

NextStore ==
    \/ NextRL
    \/ \E s \in Slots : GetFromSupabaseThrows(s) /\ UNCHANGED <<licvars, hist, fnvars>>
    \/ \E s \in Slots : SaveToSupabaseAwaitedThrows(s)
                            /\ UNCHANGED <<licvars, hist, fnvars>>
    \/ SaveToSupabaseDetachedThrows /\ UNCHANGED <<licvars, hist, fnvars>>

SpecStore == InitRL /\ [][NextStore]_vars

(***************************************************************************)
(* Several instances: every instance has its own rateLimitCache, all share *)
(* the rateLimit table.  A call runs on any instance.                      *)
(***************************************************************************)
CheckRateLimitCallOn(i, s) ==
    /\ Free(s)
    /\ hist.calls < MaxCalls
    /\ hist' = HistAtCall(now)
    /\ CheckRateLimitStartOn(i, s, HistAtCall(now).wins)
    /\ UNCHANGED <<licvars, fnvars>>

NextMulti ==
    \/ \E i \in Instances, s \in Slots : CheckRateLimitCallOn(i, s)
    \/ \E s \in Slots : GetFromSupabaseQuery(s) /\ UNCHANGED <<licvars, hist, fnvars>>
    \/ \E s \in Slots : CheckRateLimitAfterGet(s) /\ UNCHANGED <<licvars, hist, fnvars>>
    \/ \E s \in Slots : SaveToSupabaseAwaited(s) /\ UNCHANGED <<licvars, hist, fnvars>>
    \/ \E s \in Slots : CheckRateLimitAfterSave(s) /\ UNCHANGED <<licvars, hist, fnvars>>
    \/ \E s \in Slots : CheckRateLimitDone(s)
    \/ SaveToSupabaseDetached /\ UNCHANGED <<licvars, hist, fnvars>>
    \/ \E i \in Instances : SweepOf(i) /\ UNCHANGED <<licvars, hist, fnvars>>
    \/ Tick /\ UNCHANGED <<licvars, hist, fnvars>>

SpecMulti == InitRL /\ [][NextMulti]_vars

(***************************************************************************)
(* The specifications below exercise one part of the program each and      *)
(* leave the rate limiter and the license row as they are after            *)
(* construction.                                                           *)
(***************************************************************************)
sysvars == <<cfg, rateLimitCache, heap, rateLimitRow, pendingSaves, rl, hist,
             licvars>>

SysIdle ==
    /\ cfg = [limit |-> 1, windowMs |-> SwapWindow]
    /\ rateLimitCache = NoCache
    /\ heap = [s \in Slots |-> Null]
    /\ rateLimitRow = Null
    /\ pendingSaves = {}
    /\ rl = [s \in Slots |-> IdleCall]
    /\ hist = NoHist
    /\ license = NewLicense("LIFETIME", 0)
    /\ validationLog = {}
    /\ deviceSwapLog = <<>>
    /\ req = [s \in Slots |-> IdleReq]
    /\ issued = {}
    /\ out = Null
    /\ binds = 0

(***************************************************************************)
(* The stages of the four protected handlers, in the order of the calls    *)
(* in their bodies.  A stage is the component called:                      *)
(*   "auth"       parseSignedRequest and verifyRequest                     *)
(*   "ipLimit"    checkIpRateLimit                                         *)
(*   "scopeLimit" checkLicenseRateLimit, checkDeviceSwapRateLimit          *)
(*   "binding"    the license row read, its checks, and the write that     *)
(*                binds (bindDevice, requestDeviceSwap's update)           *)
(*   "token"      signAccessToken, signRefreshToken                        *)
(*   "audit"      validationLog.create, logValidation, deviceSwapLog.create*)
(* pipe.ran is the sequence of stages the request in hand has run,         *)
(* pipe.todo the stages its handler will still run, pipe.failed the stage  *)
(* that refused it, pipe.touched how often each stage ran and passed.      *)
(***************************************************************************)
Endpoints == {"activate", "validate", "swap", "extActivate"}

Stages == {"auth", "ipLimit", "scopeLimit", "binding", "token", "audit"}

\* the calls of a handler on the path where every stage passes
StagesOf(endpoint) ==
    CASE endpoint = "activate" ->
            <<"ipLimit", "auth", "binding", "audit", "token">>
      [] endpoint = "validate" ->
            <<"ipLimit", "auth", "scopeLimit", "binding", "audit", "token">>
      [] endpoint = "swap" ->
            <<"auth", "scopeLimit", "binding", "audit", "binding">>
      [] endpoint = "extActivate" ->
            <<"ipLimit", "binding", "audit", "token">>

\* what a handler still runs after this stage refused the request: POST
\* validate logs the refusal of the license (logValidation FAILED_*), every
\* other refusal returns at once
AfterFailure(endpoint, stage) ==
    IF endpoint = "validate" /\ stage = "binding" THEN <<"audit">> ELSE <<>>

\* the outcomes of a stage: the limiters, the authenticator and the checks on
\* the license can refuse; POST activate on a license already ACTIVE on the
\* same device ("again") signs a token without a log row
OutcomesOf(endpoint, stage, ran) ==
    IF stage \in {"auth", "ipLimit", "scopeLimit"} THEN {"pass", "fail"}
    ELSE IF stage = "binding" /\ "binding" \notin {ran[i] : i \in DOMAIN ran}
         THEN IF endpoint = "activate" THEN {"pass", "fail", "again"}
              ELSE {"pass", "fail"}
    ELSE {"pass"}

NoTouch == [st \in Stages |-> 0]

IdlePipe == [endpoint |-> "none", ran |-> <<>>, todo |-> <<>>,
             failed |-> "none", touched |-> NoTouch, served |-> 0]

\* a request reaches a handler
Receive(endpoint) ==
    /\ pipe.todo = <<>>
    /\ pipe.served < MaxStaged
    /\ pipe' = [pipe EXCEPT !.endpoint = endpoint, !.ran = <<>>,
                            !.todo = StagesOf(endpoint), !.failed = "none",
                            !.served = @ + 1]
    /\ UNCHANGED <<now, sysvars, hmacvars, jwtvars>>

\* the handler runs its next call; a stage that does not refuse writes its
\* state (the counter of the limiter, the license row, a log row, a token)
RunStage(outcome) ==
    /\ pipe.todo # <<>>
    /\ LET stage == Head(pipe.todo)
       IN /\ outcome \in OutcomesOf(pipe.endpoint, stage, pipe.ran)
          /\ pipe' = [pipe EXCEPT
                 !.ran = Append(@, stage),
                 !.todo = CASE outcome = "fail" ->
                                   AfterFailure(pipe.endpoint, stage)
                            [] outcome = "again" -> <<"token">>
                            [] OTHER -> Tail(@),
                 !.failed = IF outcome = "fail" THEN stage ELSE @,
                 !.touched = IF outcome = "fail" \/ stage = "auth" THEN @
                             ELSE [@ EXCEPT ![stage] = @ + 1]]
    /\ UNCHANGED <<now, sysvars, hmacvars, jwtvars>>

InitStages ==
    /\ now = 0
    /\ SysIdle
    /\ apiSecret = 1
    /\ maxAge = 0
    /\ signedRequest = Null
    /\ verified = Null
    /\ jwtInput = Null
    /\ jwt = Null
    /\ jwtResult = Null
    /\ pipe = IdlePipe

NextStages ==
    \/ \E endpoint \in Endpoints : Receive(endpoint)
    \/ \E outcome \in {"pass", "fail", "again"} : RunStage(outcome)

SpecStages == InitStages /\ [][NextStages]_vars

(***************************************************************************)
(* hmac.ts: signRequest and verifyRequest as functions, and a state        *)
(* machine that applies them: a client signs a payload with its own clock, *)
(* one bit of the envelope may change on the wire, the server's clock      *)
(* advances, the server verifies.  A payload is a number (its JSON text),  *)
(* a signature is a string of character codes.                             *)
(***************************************************************************)
Payloads == 0..MaxPayload

Secrets == 1..NSecrets

MaxAges == 0..MaxAgeBound

\* JSON.stringify({ payload, timestamp }): one text per pair
Message(payload, timestamp) == payload * 2^StampBits + timestamp

\* createHmac('sha256', secret).update(message).digest(): a keyed digest of
\* DigestBytes bytes that has no collision on the inputs of the model
Hmac(message, secret) ==
    ((message * NSecrets + (secret - 1)) * 2731 + 11) % 256^DigestBytes

\* the character of a nibble in digest('hex'): '0'..'9', 'a'..'f'
HexChar(n) == IF n < 10 THEN 48 + n ELSE 87 + n

\* .digest('hex'): two lower-case characters per byte
HexDigest(digest) ==
    [i \in 1..(2 * DigestBytes) |->
        HexChar((digest \div 16^(2 * DigestBytes - i)) % 16)]

\* the value of a character for Buffer.from(s, 'hex'), -1 if it has none:
\* the decoder takes 'A'..'F' as well as 'a'..'f'
HexVal(c) ==
    IF c \in 48..57 THEN c - 48
    ELSE IF c \in 97..102 THEN c - 87
    ELSE IF c \in 65..70 THEN c - 55
    ELSE -1

\* Buffer.from(s, 'hex'): the bytes up to the first pair that is not hex
RECURSIVE BufferFromHex(_)
BufferFromHex(s) ==
    IF Len(s) < 2 \/ HexVal(s[1]) < 0 \/ HexVal(s[2]) < 0 THEN <<>>
    ELSE <<16 * HexVal(s[1]) + HexVal(s[2])>>
            \o BufferFromHex(SubSeq(s, 3, Len(s)))

\* crypto.timingSafeEqual throws on buffers of different length, and
\* verifyRequest's catch turns the throw into false
timingSafeEqual(a, b) == Len(a) = Len(b) /\ a = b

\* lines 14-34
signRequest(payload, secret, t) ==
    [payload |-> payload, timestamp |-> t,
     signature |-> HexDigest(Hmac(Message(payload, t), secret))]

\* the freshness test with the bound itself counted as too old
StaleAtMaxAge(age, limit) == age >= limit \/ age < 0

\* the freshness test without the test for timestamps in the future
StaleOnlyOld(age, limit) == age > limit

\* lines 42-45: if (age > maxAge || age < 0) return false
Stale(age, limit) == age > limit \/ age < 0

\* lines 36-66
verifyRequest(request, secret, limit, t) ==
    IF Stale(t - request.timestamp, limit) THEN FALSE
    ELSE timingSafeEqual(
            BufferFromHex(request.signature),
            BufferFromHex(HexDigest(Hmac(Message(request.payload,
                                                 request.timestamp), secret))))

\* n with bit b changed
FlipBit(n, b) == IF (n \div 2^b) % 2 = 1 THEN n - 2^b ELSE n + 2^b

\* the envelopes that differ from request in one bit of the signature string,
\* of the payload or of the timestamp
Neighbours(request) ==
    {[request EXCEPT !.signature[i] = FlipBit(@, b)] :
         i \in DOMAIN request.signature, b \in 0..(CharBits - 1)}
    \cup {[request EXCEPT !.payload = FlipBit(@, b)] : b \in 0..(PayloadBits - 1)}
    \cup {[request EXCEPT !.timestamp = FlipBit(@, b)] : b \in 0..(StampBits - 1)}

\* request is what signRequest returns for its payload and timestamp
Genuine(request, secret) ==
    request = signRequest(request.payload, secret, request.timestamp)

\* a client signs a payload; its Date.now() may be ahead of the server's
SignRequest(payload, secret, skew) ==
    /\ signedRequest' = signRequest(payload, secret, now + skew)
    /\ verified' = Null
    /\ UNCHANGED <<now, sysvars, apiSecret, maxAge, jwtvars, pipe>>

\* one bit of a signed envelope changes before it reaches the server
Tamper ==
    /\ signedRequest # Null
    /\ \E secret \in Secrets : Genuine(signedRequest, secret)
    /\ signedRequest' \in Neighbours(signedRequest)
    /\ UNCHANGED <<now, sysvars, apiSecret, maxAge, verified, jwtvars, pipe>>

\* the server calls verifyRequest(signedRequest, apiSecret, maxAge)
VerifyRequest ==
    /\ signedRequest # Null
    /\ verified' = [request |-> signedRequest, at |-> now,
                    ok |-> verifyRequest(signedRequest, apiSecret, maxAge, now)]
    /\ UNCHANGED <<now, sysvars, apiSecret, maxAge, signedRequest, jwtvars, pipe>>

InitHmac ==
    /\ now = 0
    /\ SysIdle
    /\ apiSecret \in Secrets
    /\ maxAge \in MaxAges
    /\ signedRequest = Null
    /\ verified = Null
    /\ jwtInput = Null
    /\ jwt = Null
    /\ jwtResult = Null
    /\ pipe = Null

NextHmac ==
    \/ \E payload \in Payloads, secret \in Secrets, skew \in 0..MaxSkew :
          SignRequest(payload, secret, skew)
    \/ Tamper
    \/ VerifyRequest
    \/ Tick /\ UNCHANGED <<licvars, hist, fnvars>>

SpecHmac == InitHmac /\ [][NextHmac]_vars

(***************************************************************************)
(* The envelope stage of POST activate, validate and device swap: the JSON *)
(* body goes through parseSignedRequest, verifyRequest and the handler's   *)
(* test of the payload.  A field of the body is a JSON value with its type;*)
(* the value of a payload is its JSON text, as in Message.                 *)
(***************************************************************************)
Json(type, val) == [type |-> type, val |-> val]

Absent == Json("absent", 0)

\* the payloads a body can carry: an object with the fields the endpoint
\* needs, null, a number, or no payload at all
BodyPayloads ==
    {Absent, Json("null", MaxPayload + 1), Json("number", MaxPayload + 2)}
        \cup {Json("object", payload) : payload \in Payloads}

BodyTimestamps ==
    {Absent, Json("string", 0)}
        \cup {Json("number", t) : t \in 0..MaxTime}

\* the signatures a body can carry for its payload and timestamp: the one a
\* holder of some secret computes, a number, or none
BodySignatures(payload, timestamp) ==
    {Absent, Json("number", 0)}
        \cup {Json("string", signRequest(payload.val, secret, timestamp.val).signature) :
                 secret \in Secrets}

Bodies ==
    UNION {{[payload |-> payload, timestamp |-> timestamp, signature |-> signature] :
                signature \in BodySignatures(payload, timestamp)} :
           payload \in BodyPayloads, timestamp \in BodyTimestamps}

\* hmac.ts lines 71-91: the three fields are present, the timestamp is a
\* number and the signature a string; the payload is taken as it is
parseSignedRequest(body) ==
    IF \/ body.payload = Absent
       \/ body.timestamp.type # "number"
       \/ body.signature.type # "string"
    THEN Null
    ELSE [payload |-> body.payload.val,
          timestamp |-> body.timestamp.val,
          signature |-> body.signature.val]

\* the handler's test of the payload of a verified envelope.  activate, lines
\* 53-59: safeParse.  validate, lines 286-291, and device swap, part_003
\* lines 41-48: property reads, which throw on null into the handler's catch
PayloadCheck(endpoint, payload) ==
    IF payload.type = "object" THEN "ok"
    ELSE IF payload.type = "null" /\ endpoint # "activate" THEN "INTERNAL_ERROR"
    ELSE "INVALID_PAYLOAD"

\* activate lines 34-50, validate lines 242-282, device swap part_003 lines
\* 24-40: the code the envelope is answered with, "ok" when the handler goes
\* on
EnvelopeAnswer(endpoint, body, secret, limit, t) ==
    LET request == parseSignedRequest(body)
    IN IF request = Null THEN "INVALID_REQUEST"
       ELSE IF ~verifyRequest(request, secret, limit, t) THEN "INVALID_SIGNATURE"
       ELSE PayloadCheck(endpoint, body.payload)

\* a body is posted to an endpoint
PostBody(endpoint, body) ==
    /\ verified' = [endpoint |-> endpoint, body |-> body, at |-> now,
                    code |-> EnvelopeAnswer(endpoint, body, apiSecret, maxAge, now)]
    /\ UNCHANGED <<now, sysvars, apiSecret, maxAge, signedRequest, jwtvars, pipe>>

NextEnvelope ==
    \/ \E endpoint \in {"activate", "validate", "swap"}, body \in Bodies :
          PostBody(endpoint, body)
    \/ Tick /\ UNCHANGED <<licvars, hist, fnvars>>

SpecEnvelope == InitHmac /\ [][NextEnvelope]_vars

(***************************************************************************)
(* part_004: the token issuer.  A token is its claims and an HS256         *)
(* signature over them; jose.jwtVerify checks the signature, the issuer,   *)
(* the audience and the expiry.  The state machine signs access and        *)
(* refresh tokens, lets a client present a token that was not issued as    *)
(* it is, advances the clock and verifies.                                 *)
(***************************************************************************)
JWT_SECRET == 1

JWT_ISSUER == "slothunter"

JWT_AUDIENCE == "slothunter-extension"

\* the payloads the callers sign: { licenseId, userId, email? }
JwtPayloads ==
    [licenseId : 1..NIds, userId : 1..NIds, email : {"undefined", "a@b"}]

\* the HS256 signature of a claim set under a key: equal for equal inputs only
HS256(claims, secret) == [over |-> claims, key |-> secret]

\* new jose.SignJWT(claims) ... .sign(JWT_SECRET)
SignJWT(payload, type, t, ttl) ==
    LET claims == [licenseId |-> payload.licenseId, userId |-> payload.userId,
                   email |-> payload.email, type |-> type, iat |-> t,
                   iss |-> JWT_ISSUER, aud |-> JWT_AUDIENCE, exp |-> t + ttl]
    IN [claims |-> claims, sig |-> HS256(claims, JWT_SECRET)]

\* lines 211-221
signAccessToken(payload, t) == SignJWT(payload, "undefined", t, AccessTtl)

\* lines 226-236
signRefreshToken(payload, t) == SignJWT(payload, "refresh", t, RefreshTtl)

\* jwtVerify that takes a token of any audience
jwtVerifyAnyAudience(tok, secret, t) ==
    /\ tok.sig = HS256(tok.claims, secret)
    /\ tok.claims.iss = JWT_ISSUER
    /\ tok.claims.exp > t

\* jose.jwtVerify(token, JWT_SECRET, { issuer, audience }) does not throw
jwtVerify(tok, secret, t) ==
    /\ tok.sig = HS256(tok.claims, secret)
    /\ tok.claims.iss = JWT_ISSUER
    /\ tok.claims.aud = JWT_AUDIENCE
    /\ tok.claims.exp > t

\* the payload verifyJWT returns, without the email
PayloadWithoutEmail(claims) ==
    [licenseId |-> claims.licenseId, userId |-> claims.userId,
     email |-> "undefined", iat |-> claims.iat, exp |-> claims.exp]

\* lines 264-270: the object verifyJWT returns for verified claims
PayloadOf(claims) ==
    [licenseId |-> claims.licenseId, userId |-> claims.userId,
     email |-> claims.email, iat |-> claims.iat, exp |-> claims.exp]

\* lines 257-274: the claims, or null when jwtVerify throws
verifyJWTAt(tok, t) ==
    IF jwtVerify(tok, JWT_SECRET, t) THEN PayloadOf(tok.claims) ELSE Null

Forgeries == {"sig", "iss", "aud"}

\* lines 211-221 called by a handler
SignAccessToken(payload) ==
    /\ jwtInput' = payload
    /\ jwt' = signAccessToken(payload, now)
    /\ jwtResult' = Null
    /\ UNCHANGED <<now, sysvars, hmacvars, pipe>>

\* lines 226-236 called by a handler
SignRefreshToken(payload) ==
    /\ jwtInput' = payload
    /\ jwt' = signRefreshToken(payload, now)
    /\ jwtResult' = Null
    /\ UNCHANGED <<now, sysvars, hmacvars, pipe>>

\* a client presents, in place of a token it was issued, the same claims
\* signed with another key ("sig"), or a token for another issuer or
\* audience signed with any key
Forge(change, secret) ==
    /\ jwt # Null
    /\ jwt.sig = HS256(jwt.claims, JWT_SECRET)
    /\ jwt.claims.iss = JWT_ISSUER
    /\ jwt.claims.aud = JWT_AUDIENCE
    /\ change = "sig" => secret # JWT_SECRET
    /\ LET claims == CASE change = "iss" -> [jwt.claims EXCEPT !.iss = "other"]
                       [] change = "aud" -> [jwt.claims EXCEPT !.aud = "other"]
                       [] OTHER -> jwt.claims
       IN jwt' = [claims |-> claims, sig |-> HS256(claims, secret)]
    /\ jwtResult' = Null
    /\ UNCHANGED <<now, sysvars, hmacvars, jwtInput, pipe>>

\* lines 257-274 called by a handler
VerifyJWT ==
    /\ jwt # Null
    /\ jwtResult' = [at |-> now, payload |-> verifyJWTAt(jwt, now)]
    /\ UNCHANGED <<now, sysvars, hmacvars, jwtInput, jwt, pipe>>

InitJwt ==
    /\ now = 0
    /\ SysIdle
    /\ apiSecret = 1
    /\ maxAge = 0
    /\ signedRequest = Null
    /\ verified = Null
    /\ jwtInput = Null
    /\ jwt = Null
    /\ jwtResult = Null
    /\ pipe = Null

NextJwt ==
    \/ \E payload \in JwtPayloads : SignAccessToken(payload)
    \/ \E payload \in JwtPayloads : SignRefreshToken(payload)
    \/ \E change \in Forgeries, secret \in Secrets : Forge(change, secret)
    \/ VerifyJWT
    \/ Tick /\ UNCHANGED <<licvars, hist, fnvars>>

SpecJwt == InitJwt /\ [][NextJwt]_vars

(***************************************************************************)
(* Properties.  A step of a handler is named by the program counter it     *)
(* leaves; the verdict of a step is the response it sends, or the response *)
(* it hands to the validation log step, which sends it.                    *)
(***************************************************************************)
Rejection(r) == r.code # "OK" /\ ~r.token /\ ~r.data

Success(r) == r.code = "OK"

\* slot s leaves program counter pc in this step
Leaves(s, pc) == req[s].pc = pc /\ req'[s].pc # pc

\* a request arrives and is answered in the same step
AnsweredOnArrival == hist'.calls # hist.calls /\ req' = req

\* this step sends a response
Answers ==
    \/ AnsweredOnArrival
    \/ \E s \in Slots : req[s].pc # "idle" /\ req'[s].pc = "idle"

\* this step decides a response that rejects the request
Rejects ==
    \/ Answers /\ Rejection(out'.resp)
    \/ \E s \in Slots : /\ req'[s] # req[s]
                        /\ req'[s].pc = "log"
                        /\ Rejection(req'[s].resp)

\* this step is a handler's read of the license row for its checks: the read
\* at arrival (device swap reads after its rate limit) or the read of SwapFind
ReadsLicenseForChecks ==
    \/ /\ hist'.calls # hist.calls
       /\ \A s \in Slots : req'[s].pc = "rateLimit" => req[s].pc = "rateLimit"
    \/ \E s \in Slots : Leaves(s, "find")

\* C1: activationCount never exceeds maxActivations, whatever the interleaving
\* of activate, validate, device-swap, ban and unban requests.
C1_CountWithinMax == license.activationCount <= license.maxActivations

\* C2: a handler that reads a banned license for its checks rejects the
\* request: no success, no token, no license data (activate, validate, device
\* swap, extension activate, config delivery, license status).
C2_BannedRejected ==
    [][(license.isBanned /\ ReadsLicenseForChecks) => Rejects]_vars

\* C3: the number of successful operations that bind a fingerprint to the
\* license (first activation through any endpoint, plus swaps) never exceeds
\* maxActivations.
C3_BindsWithinMax == binds <= license.maxActivations

\* no call of checkRateLimit is running
RlQuiet == \A s \in Slots : rl[s].pc = "idle"

\* C4: after k calls of checkRateLimit inside one window, in any interleaving,
\* the entry counts k and exactly min(k, limit) of the calls were allowed.
C4_NoLostIncrement ==
    (RlQuiet /\ hist.wins = 1 /\ now < hist.open + cfg.windowMs)
        => /\ CacheEntry # Null
           /\ CacheEntry.count = hist.idx
           /\ hist.allowed = Min(hist.idx, cfg.limit)

\* C5: after k successful operations that bind a device (activation or swap),
\* activationCount is k: every one of them incremented it, none was lost.
C5_CountIsBinds == license.activationCount = binds

\* C6: sequential calls of checkRateLimit: the first N calls of a window are
\* allowed, the next are denied, and the first call made once W has elapsed
\* since the window opened is allowed with remaining = N - 1.
C6_WindowRestarts ==
    [][\A s \in Slots :
          (rl[s].pc = "done" /\ rl'[s].pc = "idle")
              => /\ rl[s].res.success <=> hist.idx <= cfg.limit
                 /\ hist.idx = 1 => rl[s].res.remaining = cfg.limit - 1]_vars

\* a license as issued: INACTIVE, nothing counted, no device, not banned
Fresh(lic) ==
    /\ lic.status = "INACTIVE"
    /\ lic.activationCount = 0
    /\ lic.browserFingerprint = 0
    /\ ~lic.isBanned

\* a license validate accepts: ACTIVE, not banned, not past its expiry
Valid(lic, t) == lic.status = "ACTIVE" /\ ~lic.isBanned /\ ~PastExpiry(lic, t)

\* C7: on a freshly issued license of any plan, activate with F1 is refused
\* only for its envelope, and its bindDevice leaves status ACTIVE, fingerprint
\* F1 and activationCount 1 and answers with a token; a validate on a valid
\* license goes on to the device check, which succeeds with the bound
\* fingerprint and fails with DEVICE_MISMATCH, changing nothing, with another;
\* the response sent is the one decided.
C7_ActivateThenValidate ==
    [][/\ (Fresh(license) /\ AnsweredOnArrival /\ out'.kind = "activate")
            => out'.resp.code \in {"INVALID_REQUEST", "INVALID_SIGNATURE"}
       /\ \A s \in Slots :
            /\ (req[s].kind = "activate" /\ Leaves(s, "bind") /\ Fresh(license))
                 => /\ license'.status = "ACTIVE"
                    /\ license'.browserFingerprint = req[s].fp
                    /\ license'.activationCount = 1
                    /\ Success(req'[s].resp) /\ req'[s].resp.token
            /\ (Leaves(s, "idle") /\ req'[s].kind = "validate" /\ Valid(license, now))
                 => req'[s].pc = "check"
            /\ (Leaves(s, "check") /\ license.browserFingerprint = req[s].fp)
                 => Success(req'[s].resp) /\ req'[s].resp.token
            /\ (Leaves(s, "check") /\ license.browserFingerprint \notin {0, req[s].fp})
                 => /\ req'[s].resp.code = "DEVICE_MISMATCH"
                    /\ Rejection(req'[s].resp)
                    /\ license' = license
            /\ Leaves(s, "log")
                 => out' = [kind |-> req[s].kind, resp |-> req[s].resp]]_vars

\* C7's case: after the activation from device 1, a validate from device 2
\* was answered DEVICE_MISMATCH, the license still ACTIVE, bound to device 1
C7_Witness ==
    /\ out # Null
    /\ out.kind = "validate"
    /\ out.resp.code = "DEVICE_MISMATCH"
    /\ license.status = "ACTIVE"
    /\ license.browserFingerprint = 1
    /\ license.activationCount = 1
    /\ binds = 1

\* C8: a device swap that reaches the license ACTIVE and not banned goes on to
\* requestDeviceSwap; with a bound device and activationCount below
\* maxActivations it is not refused; its update increments activationCount by
\* one, rebinds to the new fingerprint and answers success; afterwards a
\* validate succeeds exactly with the fingerprint bound.
C8_SwapRebinds ==
    [][\A s \in Slots :
          /\ (Leaves(s, "find") /\ license.status = "ACTIVE" /\ ~license.isBanned)
               => req'[s].pc = "swapFind"
          /\ (Leaves(s, "swapFind") /\ license.browserFingerprint # 0
                 /\ license.activationCount < license.maxActivations)
               => req'[s].pc = "swapLog"
          /\ Leaves(s, "swapUpdate")
               => /\ license'.activationCount = license.activationCount + 1
                  /\ license'.browserFingerprint = req[s].fp
                  /\ license'.status = license.status
                  /\ out'.kind = "swap" /\ Success(out'.resp)
          /\ (Leaves(s, "check") /\ license.browserFingerprint # 0)
               => (Success(req'[s].resp)
                      <=> license.browserFingerprint = req[s].fp)]_vars

\* C8's case: the license was swapped from device 1 to device 2 and a
\* validate from device 2 was then answered with success
C8_Witness ==
    /\ out # Null
    /\ out.kind = "validate"
    /\ Success(out.resp)
    /\ deviceSwapLog = <<[old |-> 1, new |-> 2]>>
    /\ license.browserFingerprint = 2
    /\ license.activationCount = 2

\* C9: once activationCount = maxActivations, a validate from another device
\* than the bound one and a swap fail with MAX_ACTIVATIONS_REACHED.
C9_MaxActivationsReached ==
    [][\A s \in Slots :
          /\ (Leaves(s, "check")
                 /\ license.browserFingerprint \notin {0, req[s].fp}
                 /\ license.activationCount = license.maxActivations)
               => req'[s].resp.code = "MAX_ACTIVATIONS_REACHED"
          /\ (Leaves(s, "swapFind")
                 /\ license.browserFingerprint # 0
                 /\ license.activationCount = license.maxActivations)
               => (Answers /\ out'.resp.code = "MAX_ACTIVATIONS_REACHED")]_vars

\* C10: a mismatched validate is answered DEVICE_MISMATCH with swapsRemaining
\* = max(0, maxActivations - activationCount) of the license it read: 1 on an
\* ANNUAL license after its first activation, 0 after one swap more.
C10_SwapsRemaining ==
    [][\A s \in Slots :
          (Leaves(s, "check") /\ license.browserFingerprint \notin {0, req[s].fp})
              => /\ req'[s].resp.code = "DEVICE_MISMATCH"
                 /\ req'[s].resp.swapsRemaining
                       = Max(0, license.maxActivations - license.activationCount)
                 /\ (license.planType = "ANNUAL" /\ license.activationCount = 1)
                       => req'[s].resp.swapsRemaining = 1
                 /\ (license.planType = "ANNUAL" /\ license.activationCount = 2)
                       => req'[s].resp.swapsRemaining = 0]_vars

\* C10's case: an ANNUAL license, activated from device 1 and swapped to
\* device 2, answered a validate from device 1 with swapsRemaining 0
C10_Witness ==
    /\ out # Null
    /\ out.kind = "validate"
    /\ out.resp.code = "DEVICE_MISMATCH"
    /\ out.resp.swapsRemaining = 0
    /\ license.planType = "ANNUAL"
    /\ license.browserFingerprint = 2
    /\ license.activationCount = 2
    /\ deviceSwapLog = <<[old |-> 1, new |-> 2]>>


\* C11: in every reachable state a license with no bound browser fingerprint
\* has status INACTIVE, whatever sequence of issuance, activate, validate,
\* swap, lazy expiry, ban, refund ban and unban led there.
C11_UnboundIsInactive ==
    license.browserFingerprint = 0 => license.status = "INACTIVE"

\* the place of a stage in the order Request Authenticator, Rate Limiter (IP,
\* then the scope of the action), Device Binding Manager, Token Issuer,
\* Audit Log
StageRank(stage) ==
    CASE stage = "auth" -> 1
      [] stage = "ipLimit" -> 2
      [] stage = "scopeLimit" -> 3
      [] stage = "binding" -> 4
      [] stage = "token" -> 5
      [] stage = "audit" -> 6

\* C12: every protected endpoint runs its stages in the order authenticator,
\* rate limiter (IP, then action scope), device binding, token issuer, audit
\* log, and a stage that refuses the request ends it: nothing runs after it.
C12_StageOrder ==
    /\ \A i, j \in DOMAIN pipe.ran :
          i < j => StageRank(pipe.ran[i]) < StageRank(pipe.ran[j])
    /\ pipe.failed # "none" => pipe.ran[Len(pipe.ran)] = pipe.failed

\* C13: an envelope signed with the server's secret verifies at the instant of
\* its timestamp, and does not verify at any instant more than maxAge later,
\* for every payload, secret and maxAge.
C13_SignThenVerify ==
    (verified # Null /\ Genuine(verified.request, apiSecret))
        => /\ verified.at = verified.request.timestamp => verified.ok
           /\ verified.at - verified.request.timestamp > maxAge => ~verified.ok

\* C13's case: an envelope signed with the server's secret was verified at
\* the instant it was signed, and accepted
C13_Witness ==
    /\ verified # Null
    /\ Genuine(verified.request, apiSecret)
    /\ verified.at = verified.request.timestamp
    /\ verified.ok

\* C14: when an envelope was accepted, an envelope that differs from it in
\* one bit of the signature string, the payload or the timestamp is rejected
\* under the same secret at the same instant.
C14_OneBitRejected ==
    [][(/\ verified # Null
        /\ verified.ok
        /\ verified.at = now
        /\ signedRequest \in Neighbours(verified.request)
        /\ verified' # Null
        /\ verified'.request = signedRequest
        /\ verified'.at = now)
          => ~verified'.ok]_vars

\* C15: verifyRequest returns false when the timestamp is later than now or
\* more than maxAge before now, whatever the signature; what it accepts has
\* 0 <= now - timestamp <= maxAge.
C15_FreshnessWindow ==
    verified # Null
        => LET age == verified.at - verified.request.timestamp
           IN /\ (age < 0 \/ age > maxAge) => ~verified.ok
              /\ verified.ok => (0 <= age /\ age <= maxAge)

\* C15's case: an envelope that carries the right signature for a timestamp
\* later than the server's clock was verified, and rejected
C15_Witness ==
    /\ verified # Null
    /\ Genuine(verified.request, apiSecret)
    /\ verified.request.timestamp > verified.at
    /\ ~verified.ok

\* this step answers a GET config or GET license status request
AnswersBearer ==
    AnsweredOnArrival /\ out'.kind \in {"config", "status"}

\* C16: config delivery and license status reject a correctly signed,
\* unexpired token whose type claim is refresh: the request gets no data.
C16_RefreshRejected ==
    [][(AnswersBearer /\ out'.bearer = "refresh")
          => Rejection(out'.resp)]_vars

\* C17: verifyJWT of an access token, at the instant signAccessToken issued
\* it for a claim set {licenseId, userId, email?}, returns these claims with
\* the values they were given.
C17_AccessRoundTrip ==
    (jwtResult # Null /\ jwt = signAccessToken(jwtInput, jwtResult.at))
        => /\ jwtResult.payload # Null
           /\ \A claim \in DOMAIN jwtInput :
                 jwtResult.payload[claim] = jwtInput[claim]

\* C17's case: an access token for a claim set with an email was verified at
\* the instant it was issued
C17_Witness ==
    /\ jwtResult # Null
    /\ jwt = signAccessToken(jwtInput, jwtResult.at)
    /\ jwtInput.email # "undefined"
    /\ jwtResult.payload # Null

\* C18: verifyJWT returns null, never a part of the claims, for a token whose
\* signature does not match, whose issuer or audience is another one, or
\* whose validity has elapsed: AccessTtl after an access token was issued,
\* RefreshTtl after a refresh token was issued.
C18_FailsClosed ==
    jwtResult # Null
        => /\ (\/ jwt.sig # HS256(jwt.claims, JWT_SECRET)
               \/ jwt.claims.iss # JWT_ISSUER
               \/ jwt.claims.aud # JWT_AUDIENCE
               \/ jwtResult.at >= jwt.claims.exp) => jwtResult.payload = Null
           /\ jwtResult.payload # Null
                 => DOMAIN jwtResult.payload
                       = {"licenseId", "userId", "email", "iat", "exp"}
           /\ \A t \in 0..jwtResult.at :
                 (\/ jwt = signAccessToken(jwtInput, t) /\ jwtResult.at >= t + AccessTtl
                  \/ jwt = signRefreshToken(jwtInput, t) /\ jwtResult.at >= t + RefreshTtl)
                     => jwtResult.payload = Null

\* C18's case: a refresh token was verified RefreshTtl after it was issued,
\* and verifyJWT returned null
C18_Witness ==
    /\ jwtResult # Null
    /\ jwt = signRefreshToken(jwtInput, jwtResult.at - RefreshTtl)
    /\ jwtResult.payload = Null

\* C19: a GET config or GET license status request with a token that verifies
\* is rejected when, at the time of the call, the license is banned or its
\* expiresAt has passed.
C19_RevokedOnNextCall ==
    [][(/\ AnswersBearer
        /\ out'.bearer # "bad"
        /\ (license.isBanned \/ PastExpiry(license, now)))
          => Rejection(out'.resp)]_vars

\* this step is the arrival of an activate, validate or extension activate
\* request whose envelope passes, in slot s or answered at once
ArrivesToValidate(s) ==
    /\ hist'.calls # hist.calls
    /\ \/ req'[s] # req[s] /\ req'[s].kind \in {"activate", "validate", "extActivate"}
       \/ /\ req' = req
          /\ out'.kind \in {"activate", "validate", "extActivate"}
          /\ out'.resp.code \notin {"INVALID_REQUEST", "INVALID_SIGNATURE"}

\* C20: a validate, activate or extension activate request that reads a
\* license whose expiresAt has passed goes on to no further check and to no
\* binding, and when a request is answered that the license has expired, the
\* stored status is EXPIRED.
C20_LazyExpiry ==
    [][/\ \A s \in Slots :
            (ArrivesToValidate(s) /\ ~license.isBanned /\ PastExpiry(license, now))
                => req'[s].pc \notin {"bind", "check", "group", "extBind"}
       /\ (/\ Answers
           /\ out'.kind \in {"activate", "validate", "extActivate"}
           /\ out'.resp.code \in {"LICENSE_EXPIRED", "EXPIRED"}
           /\ ~license'.isBanned)
             => license'.status = "EXPIRED"]_vars

\* C21: with NInstances instances that each have a cache and share the table,
\* the calls allowed for the key within one window, summed over the
\* instances, are at most limit * NInstances.
C21_InstancesBound == hist.allowed <= cfg.limit * NInstances

\* the swaps carried out so far: a deviceSwapLog row is written before the
\* update of the license, so the rows of the swaps still at the update are
\* not counted
SwapsPerformed ==
    Len(deviceSwapLog) - Cardinality({s \in Slots : req[s].pc = "swapUpdate"})

\* C22: for one license at most one swap is performed (fingerprint replaced,
\* activationCount incremented) within one window of the device-swap scope;
\* the behaviours start at time 0, so while now < SwapWindow every swap made
\* lies in one window.
C22_OneSwapPerWindow == now < SwapWindow => SwapsPerformed <= 1

\* this step answers an authentication or binding attempt: a request to
\* activate, validate or device swap whose envelope was accepted and that the
\* device-swap rate limit let through
AnswersAttempt ==
    /\ Answers
    /\ out'.kind \in {"activate", "validate", "swap"}
    /\ out'.resp.code \notin {"INVALID_REQUEST", "INVALID_SIGNATURE",
                              "DEVICE_SWAP_RATE_LIMIT"}

\* C23: every attempt handled by activate, validate or device swap appends one
\* entry to the validation log that records its outcome, failed attempts
\* included: the handlers write the entry right before they respond, so the
\* step that answers an attempt is the write of its entry.
C23_OneLogPerAttempt ==
    [][AnswersAttempt => \E s \in Slots : Leaves(s, "log")]_vars

\* C24: a throw of the validation log write on the success path is not a
\* request failure: a request of activate or validate that decided a success
\* is answered with that success and its token, whether the write of its log
\* entry succeeds or throws.
C24_LogFailureHidden ==
    [][\A s \in Slots :
          (Leaves(s, "log") /\ Success(req[s].resp))
              => out' = [kind |-> req[s].kind, resp |-> req[s].resp]]_vars

\* C25: checkRateLimit never fails because of the database: whether the
\* queries and upserts of the rateLimit table are executed or throw, no call
\* ends with an exception, and every call that ends returns the decision
\* (success, limit, remaining, reset) computed from the entry in the cache of
\* its instance, success being the only field that can deny the request.
C25_StoreFailureHidden ==
    [][\A s \in Slots :
          /\ rl'[s].pc # "threw"
          /\ (rl[s].pc # "done" /\ rl'[s].pc = "done")
               => \E i \in Instances :
                     /\ i = rl'[s].inst
                     /\ CacheEntryOf(i)' # Null
                     /\ rl'[s].res = Result(CacheEntryOf(i))'
                     /\ rl'[s].res.success \in BOOLEAN]_vars

\* C25's case: a call has returned its decision although no upsert was
\* executed: the one awaited and the one sent afterwards both threw
C25_Witness ==
    \E s \in Slots :
        /\ rl[s].pc = "done"
        /\ rl[s].res = Result(CacheEntryOf(rl[s].inst))
        /\ rateLimitRow = Null
        /\ pendingSaves = {}

\* a field of the body is missing or does not have its type
Malformed(body) ==
    \/ body.payload.type # "object"
    \/ body.timestamp.type # "number"
    \/ body.signature.type # "string"

\* C26: activate, validate and device swap answer a body whose payload,
\* timestamp or signature is missing or mistyped with INVALID_REQUEST, and a
\* well-formed envelope whose timestamp is stale or in the future or whose
\* signature does not match with INVALID_SIGNATURE; either answer is sent
\* before the handler reads the license.
C26_EnvelopeRejected ==
    verified # Null =>
        /\ Malformed(verified.body) => verified.code = "INVALID_REQUEST"
        /\ (/\ ~Malformed(verified.body)
            /\ ~verifyRequest(parseSignedRequest(verified.body), apiSecret,
                              maxAge, verified.at))
             => verified.code = "INVALID_SIGNATURE"

\* C27: with sequential callers and restarts of the process inside a window,
\* the first call after a restart continues from the count written before
\* it: the calls allowed in one window, before and after the restarts
\* together, are at most limit.
C27_RestartKeepsCount == hist.allowed <= cfg.limit

\* C28: EXPIRED is terminal: no step of activate, validate, device swap, ban
\* or unban changes the status of a license whose status is EXPIRED.
C28_ExpiredTerminal ==
    [][license.status = "EXPIRED" => license'.status = "EXPIRED"]_vars

\* C29: activate binds a device only to a license that is INACTIVE with
\* activationCount below maxActivations, and the bind sets the fingerprint,
\* status ACTIVE and activationCount + 1; an activate that reads a license in
\* any other status is refused and changes nothing.
C29_ActivateOnlyInactive ==
    [][/\ \A s \in Slots :
            (req[s].kind = "activate" /\ Leaves(s, "bind"))
                => /\ license.status = "INACTIVE"
                   /\ license.activationCount < license.maxActivations
                   /\ license' = [license EXCEPT
                                     !.browserFingerprint = req[s].fp,
                                     !.status = "ACTIVE",
                                     !.activationCount = @ + 1]
       /\ (/\ AnsweredOnArrival
           /\ out'.kind = "activate"
           /\ out'.resp.code \notin {"INVALID_REQUEST", "INVALID_SIGNATURE"}
           /\ license.status # "INACTIVE")
             => Rejection(out'.resp) /\ license' = license]_vars

\* C30: validate succeeds only on a license whose status is ACTIVE when the
\* request reads it: a validate that reads an INACTIVE or EXPIRED license
\* decides a rejection in that step, so it goes on to no device check, no
\* bind and no token.
C30_ValidateOnlyActive ==
    [][\A s \in Slots :
          (/\ req[s].pc = "idle"
           /\ req'[s].kind = "validate"
           /\ license.status # "ACTIVE")
             => req'[s].pc = "log" /\ Rejection(req'[s].resp)]_vars

\* C31: a validate whose fingerprint differs from the bound one leaves the
\* license row as it is: the read at arrival writes nothing, the device check
\* that finds another fingerprint bound sends the request to its log and to
\* no write, and the log and the response write nothing to the row.
C31_MismatchChangesNothing ==
    [][\A s \in Slots :
          /\ (Leaves(s, "idle") /\ req'[s].kind = "validate") => license' = license
          /\ (/\ req[s].kind = "validate"
              /\ Leaves(s, "check")
              /\ license.browserFingerprint \notin {0, req[s].fp})
                => req'[s].pc = "log" /\ license' = license
          /\ (req[s].kind = "validate" /\ Leaves(s, "log")) => license' = license]_vars

\* C31's case: the license was bound to device 2 by an activate, and a
\* validate from device 1 was then answered as a mismatch
C31_Witness ==
    /\ out # Null
    /\ out.kind = "validate"
    /\ out.resp.code = "DEVICE_MISMATCH"
    /\ license.browserFingerprint = 2
    /\ hist.calls = 2

\* C32: the unban of a banned license clears the banned flag and sets the
\* status to EXPIRED when expiresAt is not null and has passed, to ACTIVE
\* otherwise, and writes nothing else; on a license that is not banned unban
\* is refused, so no unban step exists there.
C32_UnbanRecomputesStatus ==
    /\ [][(license.isBanned /\ ~license'.isBanned)
            => license' = [license EXCEPT
                             !.isBanned = FALSE,
                             !.status = IF /\ license.expiresAt # -1
                                           /\ license.expiresAt < now
                                        THEN "EXPIRED" ELSE "ACTIVE"]]_vars
    /\ [](~license.isBanned => ~ENABLED Unban)

\* C32's case: no request has arrived, and a license that was banned and
\* unbanned after its expiresAt is EXPIRED and not banned
C32_Witness ==
    /\ hist.calls = 0
    /\ ~license.isBanned
    /\ license.status = "EXPIRED"
    /\ license.expiresAt < now

\* C33: ban changes the banned flag and nothing else of the license row:
\* status, bound fingerprint and activationCount stay as they were, for the
\* ban of an administrator and for the ban of a refund.
C33_BanKeepsState ==
    [][(~license.isBanned /\ license'.isBanned)
          => license' = [license EXCEPT !.isBanned = TRUE]]_vars

\* C34: the deviceSwapLog rows are the swaps carried out.  The step that ends
\* requestDeviceSwap with success replaces the bound fingerprint, increments
\* activationCount and leaves a row with the fingerprint bound just before
\* and the one bound just after; a swap request that ends in a failure leaves
\* the license as it was and no row of its own in the log.
C34_LogMatchesSwaps ==
    [][\A s \in Slots :
          /\ (Leaves(s, "swapUpdate") /\ Success(out'.resp))
               => /\ license' = swapDevice(license, req[s].fp)
                  /\ deviceSwapLog' = deviceSwapLog
                  /\ \E i \in DOMAIN deviceSwapLog :
                        deviceSwapLog[i] = [old |-> license.browserFingerprint,
                                            new |-> license'.browserFingerprint]
          /\ (Leaves(s, "swapUpdate") /\ ~Success(out'.resp))
               => /\ license' = license
                  /\ Len(deviceSwapLog') = Len(deviceSwapLog) - 1
          /\ (/\ req[s].kind = "swap"
              /\ req[s].pc \in {"find", "swapFind"}
              /\ req'[s].pc = "idle")
               => license' = license /\ deviceSwapLog' = deviceSwapLog]_vars

\* the calls allowed whose times lie in one interval of length windowMs are
\* at most n: of any two allowed calls at most windowMs apart, the later is at
\* most the (n - 1)th after the earlier
AllowedPerInterval(n) ==
    \A i, j \in DOMAIN hist.times :
        (i <= j /\ hist.times[j] - hist.times[i] <= cfg.windowMs) => j - i + 1 <= n

\* C35: an increment never changes resetAt of a live entry, and with
\* sequential callers on one instance the calls allowed for the key within
\* any interval of length windowMs are at most 2 x limit.
C35_FixedWindowBound ==
    /\ [][(/\ CacheLive(CacheEntry, now)
           /\ CacheEntry' # Null
           /\ CacheEntry'.count > CacheEntry.count)
            => CacheEntry'.resetAt = CacheEntry.resetAt]_vars
    /\ [](AllowedPerInterval(2 * cfg.limit))

\* C35's case: across a window boundary more than limit calls were allowed
\* within one interval of length windowMs
C35_Witness ==
    /\ RlQuiet
    /\ ~AllowedPerInterval(cfg.limit)
    /\ AllowedPerInterval(2 * cfg.limit)

\* C36: a response that rejects a request because a scope of the rate limit
\* is exhausted has the code RATE_LIMIT_EXCEEDED, and the result of the limiter
\* it is built from has the limit of the scope and remaining 0.
C36_RateLimitResponse ==
    [][\A s \in Slots :
          (/\ req[s].pc = "rateLimit"
           /\ rl[s].pc = "done"
           /\ ~rl[s].res.success
           /\ req'[s].pc = "idle")
             => /\ out'.resp.code = "RATE_LIMIT_EXCEEDED"
                /\ rl[s].res.limit = cfg.limit
                /\ rl[s].res.remaining = 0]_vars

\* C37: activate, validate and extension activate issue a token only to a
\* request whose browserFingerprint is the one bound to the license when the
\* token is signed.
C37_TokenOnlyToBoundDevice ==
    [][\A s \in Slots :
          (/\ Leaves(s, "log")
           /\ req[s].kind \in {"activate", "validate", "extActivate"}
           /\ out'.resp.token)
             => license.browserFingerprint = req[s].fp]_vars

\* C38: of two concurrent first activations (activate, or validate on an
\* unbound license) with different fingerprints at most one succeeds: a
\* request binds its fingerprint, and is then answered with success, only
\* while no other fingerprint is bound, so the license stays bound to the
\* first request's fingerprint with activationCount increased by 1.
C38_OneFirstActivation ==
    [][\A s \in Slots :
          (req[s].kind \in {"activate", "validate"} /\ Leaves(s, "bind"))
              => license.browserFingerprint \in {0, req[s].fp}]_vars


(***************************************************************************)
(* C39: the sweep removes the cache entries whose resetAt is earlier than  *)
(* now, all of them and never a live one, and a sweep does not change the  *)
(* result of a later call of checkRateLimit: every call starts as it       *)
(* would start on the cache that was never swept, with the same result     *)
(* {success, limit, remaining, reset} when it is answered from the cache   *)
(* and with the same query of the durable row when it is not.  The swept   *)
(* cache differs from the unswept one only where the unswept one holds an  *)
(* entry that has expired.                                                 *)
(***************************************************************************)
C39_SweepKeepsResults ==
    [][/\ (rateLimitCache[1] # Null /\ rateLimitCache'[1] = Null)
            => /\ CacheEntry.resetAt < now
               /\ ~CacheLive(CacheEntry, now)
       /\ (ENABLED Sweep) <=> (CacheEntry # Null /\ CacheEntry.resetAt < now)
       /\ \A s \in Slots :
             (rl[s].pc = "idle" /\ rl'[s].pc # "idle")
                => /\ rl'[s] = UnsweptStart(s, rl'[s].win)
                   /\ rl'[s].pc = "done"
                         => rateLimitCache'[1] = hist'.unswept
       /\ rateLimitCache'[1] # hist'.unswept
             => /\ rateLimitCache'[1] = Null
                /\ ~CacheLive(UnsweptEntry, now)']_vars

\* a call has started after a sweep removed the entry the unswept cache
\* still holds
C39_Witness ==
    /\ rateLimitCache[1] = Null
    /\ hist.unswept # Null
    /\ hist.calls >= 2
    /\ \E s \in Slots : rl[s].pc = "get" /\ rl[s].now0 = now

=============================================================================
